---- MODULE Spec2Model ----
(***************************************************************************)
(* A model of python-cptv: the CPTV container writer (cptv/writer.py), the *)
(* reader (cptv/reader.py) and the frame codec they share.                 *)
(*                                                                         *)
(* Conventions                                                             *)
(*  - a byte string is a sequence of integers 0..255;                      *)
(*  - a numpy array is a sequence; array index i of the source is index    *)
(*    i+1 here;                                                            *)
(*  - a frame's pix is the row-major flattening (pix.ravel()) of the       *)
(*    ROWS x COLS array;                                                   *)
(*  - a float is a float32, given by its IEEE-754 bit pattern read as a    *)
(*    signed 32-bit integer (negative for a negative float), so that       *)
(*    struct.pack("<f") / unpack("<f") are the little-endian bytes of the  *)
(*    pattern;                                                             *)
(*  - a datetime is [secs, usec] since the Unix epoch (UTC);               *)
(*  - a Python value that may be None is a record tagged with its type; a  *)
(*    raised exception is a record with ok = FALSE and the exception's     *)
(*    class in err;                                                        *)
(*  - TLC's integers are 32 bit: every u32 the model handles is below      *)
(*    2^31, and 64-bit quantities are kept as base-256 digits;             *)
(*  - an intermediate value of the source that is used more than once is   *)
(*    the parameter of a local operator (LET f(v) == ... IN f(e)), so that *)
(*    it is evaluated once;                                                *)
(*  - numpy scalar arithmetic follows the legacy (numpy 1.x) promotion     *)
(*    rules when legacy_promotion holds and the NEP 50 (numpy 2.x) rules   *)
(*    otherwise; the two differ in Compressor.pack_bits_fallback only.     *)
(***************************************************************************)
EXTENDS Integers, Sequences, FiniteSets, TLC

\* ------------------------------------------------------------------ bounds
\* The writer's frame is COLS x ROWS = 160 x 120 (writer.py:27-28); the model
\* runs the same code on a small frame.
COLS == 2
ROWS == 2
\* Largest number of write_frame calls on one writer.
MaxFrames == 2
\* Largest number of write_header calls on one writer.
MaxHeaders == 2

NPix == COLS * ROWS

\* ------------------------------------------------------- integer helpers
\* F(e), with e computed once however often F refers to its argument
Once(e, F(_)) == CHOOSE x \in {F(y) : y \in {e}} : TRUE

\* 2^k, k <= 30
Pow2(k) ==
    IF k <= 0 THEN 1
    ELSE
         <<2, 4, 8, 16, 32, 64, 128, 256, 512, 1024, 2048, 4096,
           8192, 16384, 32768, 65536, 131072, 262144, 524288,
           1048576, 2097152, 4194304, 8388608, 16777216, 33554432,
           67108864, 134217728, 268435456, 536870912, 1073741824>>[k]

\* int.bit_length of |n|
bit_length(n) ==
    LET below(a) == {k \in 0..30 : Pow2(k) <= a}
    IN  Cardinality(below(IF n < 0 THEN -n ELSE n))

\* ndarray.astype("h"): wrap to signed 16 bit
astype_h(v) == ((v + 32768) % 65536) - 32768
\* ndarray.astype("H"): wrap to unsigned 16 bit
astype_H(v) == v % 65536
\* ndarray.astype("B"): wrap to unsigned 8 bit
astype_B(v) == v % 256
\* ndarray.astype("b"): reinterpret a byte as signed 8 bit
astype_b(v) == ((v + 128) % 256) - 128

\* abs() of an int16 array element: numpy wraps, so abs(-32768) = -32768
abs16(x) == astype_h(IF x < 0 THEN -x ELSE x)

\* max() of a non-empty sequence
RECURSIVE SeqMax(_)
SeqMax(s) ==
    IF Len(s) = 1 THEN s[1]
    ELSE LET m == SeqMax(Tail(s)) IN IF s[1] > m THEN s[1] ELSE m

\* concatenation of a sequence of sequences
RECURSIVE Flatten(_)
Flatten(ss) == IF ss = <<>> THEN <<>> ELSE Head(ss) \o Flatten(Tail(ss))

\* struct.pack little-endian of k bytes: v unsigned, or signed in two's
\* complement
LE(v, k) ==
    [i \in 1..k |-> IF i <= 4 THEN (v \div Pow2(8 * (i - 1))) % 256
                    ELSE IF v < 0 THEN 255 ELSE 0]

\* struct.unpack little-endian unsigned
RECURSIVE FromLE(_)
FromLE(bs) == IF bs = <<>> THEN 0 ELSE bs[1] + 256 * FromLE(Tail(bs))

\* struct.pack("<l", v): a signed 32-bit value; v is an int16 here, so the two
\* high bytes are its sign extension
pack_l(v) == IF v >= 0 THEN LE(v, 4) ELSE LE(v + 65536, 2) \o <<255, 255>>

\* struct.unpack("<i", b): signed 32 bit
unpack_i(bs) ==
    IF bs[4] < 128 THEN FromLE(bs)
    ELSE FromLE(<<bs[1], bs[2], bs[3], bs[4] - 128>>) - 1073741824 - 1073741824

\* ------------------------------------------------------------ snake order
\* the index map as it would be if odd rows were rotated by one place instead
\* of reversed
twisted_rotated(width, linear) ==
    linear + ((linear \div width) % 2)
             * (IF linear % width = width - 1 THEN -(width - 1) ELSE 1)

\* linear + ((linear // width) & 1) * (width - 1 - 2 * (linear % width));
\* the uint32 arithmetic wraps in between and ends in 0..width*height-1
twisted(width, linear) ==
    linear + ((linear \div width) % 2) * (width - 1 - 2 * (linear % width))

\* Compressor._get_twisted: the gather index of every linear position
get_twisted(width, height) ==
    [i \in 1..(width * height) |-> twisted(width, i - 1)]

\* CPTVReader._get_snake (flattened)
get_snake(width, height) ==
    [i \in 1..(width * height) |-> twisted(width, i - 1)]

\* ------------------------------------------------- Compressor (writer.py)
\* pix.ravel().astype("h")[twisted]
linear_pix_of(pix) ==
    LET tw == get_twisted(COLS, ROWS)
    IN  [i \in 1..NPix |-> astype_h(pix[tw[i] + 1])]

\* delta = linear_pix - self.prev_linear_pix when the attribute exists
\* (int16 arithmetic), else linear_pix
delta_of(linear, comp) ==
    IF comp.has_prev
    THEN [i \in 1..NPix |-> astype_h(linear[i] - comp.prev[i])]
    ELSE linear

\* np.diff(delta), int16
np_diff(delta) ==
    [i \in 1..(Len(delta) - 1) |-> astype_h(delta[i + 1] - delta[i])]

\* max(abs(del_delta))
max_delta_of(del_delta) ==
    SeqMax([i \in 1..Len(del_delta) |-> abs16(del_delta[i])])

\* width = 1 + int.bit_length(int(max_delta)), then rounded up to 8 / 12 / 16
choose_width(max_delta) ==
    LET width == 1 + bit_length(max_delta)
        max(a, b) == IF a > b THEN a ELSE b
    IN  IF width > 12 THEN max(width, 16)
        ELSE IF width > 8 THEN max(width, 12)
        ELSE 8

\* pack_bits, packed_bit_width == 12: two values in three bytes.  The uint8
\* result array truncates whatever is stored into it.
pack_bits_12(vals) ==
    LET n == Len(vals)
        mask == Pow2(12) - 1
        twos_complement == [i \in 1..n |-> vals[i] % (mask + 1)]
        \* stacked = twos_complement << 4; stacked[:-1] += twos_complement[1:] >> 8
        stacked == [i \in 1..n |->
                      astype_h(twos_complement[i] * 16
                               + (IF i < n THEN twos_complement[i + 1] \div 256
                                  ELSE 0))]
        result_len == (n * 3 + 1) \div 2
    IN  [j \in 1..result_len |->
            LET k == (j - 1) \div 3
            IN  CASE (j - 1) % 3 = 0 -> astype_B(vals[2 * k + 1] \div 16)
                  [] (j - 1) % 3 = 1 -> astype_B(stacked[2 * k + 1])
                  [] OTHER           -> astype_B(vals[2 * k + 2])]

\* pack_bits_fallback's loop.  The source keeps the pending bits left-aligned
\* in a 32-bit scratch (bits) and emits bits >> 24; pending is the same
\* register right-aligned: bits = pending << (32 - num_bits).
RECURSIVE fallback_loop(_, _, _, _)
fallback_loop(packed_bit_width, vals, pending, num_bits) ==
    IF vals = <<>>
    THEN IF num_bits > 0 THEN <<pending * Pow2(8 - num_bits)>> ELSE <<>>
    ELSE LET mask == Pow2(packed_bit_width) - 1
             p1 == pending * Pow2(packed_bit_width) + (Head(vals) % (mask + 1))
             n1 == num_bits + packed_bit_width
             nout == n1 \div 8
             left == n1 % 8
             whole == p1 \div Pow2(left)
             out == [j \in 1..nout |-> (whole \div Pow2(8 * (nout - j))) % 256]
         IN  out \o fallback_loop(packed_bit_width, Tail(vals),
                                  p1 % Pow2(left), left)

\* a | b of two non-negative integers
RECURSIVE bit_or(_, _)
bit_or(a, b) ==
    IF a = 0 THEN b
    ELSE IF b = 0 THEN a
    ELSE (IF a % 2 = 1 \/ b % 2 = 1 THEN 1 ELSE 0)
         + 2 * bit_or(a \div 2, b \div 2)

\* x << k of a numpy int16 scalar x and a Python int k: the result is int16,
\* and a shift by the width of the type or more gives 0
lshift_h(x, k) == IF k >= 16 THEN 0 ELSE astype_h(x * Pow2(k))

\* "while num_bits >= 8" with an int16 scratch: result[index] = bits stores
\* the int16 into the uint32 array (sign-extended), whose top byte, result >>
\* 24, is 0 or 255; bits <<= 8 stays int16
RECURSIVE drain_h(_, _)
drain_h(bits, num_bits) ==
    IF num_bits >= 8
    THEN LET rest(r) == [out |-> <<IF bits < 0 THEN 255 ELSE 0>> \o r.out,
                         bits |-> r.bits, num_bits |-> r.num_bits]
         IN  rest(drain_h(lshift_h(bits, 8), num_bits - 8))
    ELSE [out |-> <<>>, bits |-> bits, num_bits |-> num_bits]

\* pack_bits_fallback's loop under NEP 50 promotion: val & mask, its shift and
\* the scratch bits are all numpy int16
RECURSIVE fallback_loop_h(_, _, _, _)
fallback_loop_h(packed_bit_width, vals, bits, num_bits) ==
    IF vals = <<>>
    THEN IF num_bits > 0 THEN <<IF bits < 0 THEN 255 ELSE 0>> ELSE <<>>
    ELSE LET next(d) ==
                 d.out \o fallback_loop_h(packed_bit_width, Tail(vals),
                                          d.bits, d.num_bits)
             \* bits |= (val & mask) << (32 - packed_bit_width - num_bits)
             or_in(shifted) ==
                 next(drain_h(astype_h(bit_or(astype_H(bits),
                                              astype_H(shifted))),
                              num_bits + packed_bit_width))
         IN  or_in(lshift_h(Head(vals) % Pow2(packed_bit_width),
                            32 - packed_bit_width - num_bits))

\* Compressor.pack_bits_fallback.  val is a numpy int16 scalar, mask and the
\* shift count are Python ints.  Legacy promotion computes val & mask and all
\* that follows in int64; under NEP 50 they stay int16, and a mask that does
\* not fit int16 raises OverflowError.
pack_bits_fallback(packed_bit_width, vals, legacy) ==
    IF legacy \/ vals = <<>>
    THEN [ok |-> TRUE, err |-> "",
          data |-> fallback_loop(packed_bit_width, vals, 0, 0)]
    ELSE IF Pow2(packed_bit_width) - 1 > 32767
    THEN [ok |-> FALSE, err |-> "OverflowError", data |-> <<>>]
    ELSE [ok |-> TRUE, err |-> "",
          data |-> fallback_loop_h(packed_bit_width, vals, 0, 0)]

\* Compressor.pack_bits followed by .astype("B")
pack_bits(packed_bit_width, vals, legacy) ==
    IF packed_bit_width = 8
    THEN [ok |-> TRUE, err |-> "",
          data |-> [i \in 1..Len(vals) |-> astype_B(vals[i])]]
    ELSE IF packed_bit_width = 12
    THEN [ok |-> TRUE, err |-> "", data |-> pack_bits_12(vals)]
    ELSE pack_bits_fallback(packed_bit_width, vals, legacy)

\* Compressor._next_frame: the reference is replaced before the deltas are
\* packed, so prev is the new reference whether or not packing raises.
next_frame(pix, comp, legacy) ==
    LET result(linear, delta, width, packed) ==
            [ok |-> packed.ok, err |-> packed.err, width |-> width,
             start_value |-> delta[1], pack_data |-> packed.data,
             prev |-> linear]
        \* pack_data = self.pack_bits(width, del_delta).astype("B")
        pack(linear, delta, del_delta, width) ==
            result(linear, delta, width, pack_bits(width, del_delta, legacy))
        \* del_delta = np.diff(delta), and the width it needs
        diff(linear, delta, del_delta) ==
            pack(linear, delta, del_delta,
                 choose_width(max_delta_of(del_delta)))
        \* delta = linear_pix - self.prev_linear_pix
        subtract(linear) ==
            diff(linear, delta_of(linear, comp),
                 np_diff(delta_of(linear, comp)))
    IN  subtract(linear_pix_of(pix))

\* ------------------------------------------------------- Python values
\* A Python value that may be None is a tagged record, so that values of
\* different types compare unequal.
NoneV == [t |-> "None", v |-> 0]
IntV(n) == [t |-> "int", v |-> n]
\* a float32 by its bit pattern as a signed 32-bit integer
FloatV(pattern) == [t |-> "float", v |-> pattern]
\* the pattern of -0.0
NegZero == -2147483647 - 1
BytesV(bs) == [t |-> "bytes", v |-> bs]
\* an aware datetime (tzinfo=timezone.utc): seconds and microseconds since
\* 1970-01-01T00:00:00Z
DatetimeV(secs, usec) == [t |-> "datetime", v |-> <<secs, usec>>]
\* a naive datetime (tzinfo None), as datetime.now() returns it: the seconds
\* and microseconds since the epoch of the instant its local time denotes.
\* A naive and an aware datetime never compare equal.
NaiveV(secs, usec) == [t |-> "naive datetime", v |-> <<secs, usec>>]
\* timedelta, in microseconds
TimedeltaV(micros) == [t |-> "timedelta", v |-> micros]
BoolV(b) == [t |-> "bool", v |-> b]

\* Python truthiness: "if self.device_name:" and friends
truthy(x) ==
    CASE x.t = "None" -> FALSE
      [] x.t = "int" -> x.v # 0
      [] x.t = "float" -> x.v \notin {0, NegZero}
      [] x.t = "bytes" -> x.v # <<>>
      [] x.t = "bool" -> x.v
      [] OTHER -> TRUE

\* x == 0 in Python, for the numeric defaults (0 == 0.0)
is_zero(x) ==
    \/ x.t = "int" /\ x.v = 0
    \/ x.t = "float" /\ x.v \in {0, NegZero}

\* == on two Python values: equal types and equal contents
same(x, y) == x.t = y.t /\ x.v = y.v

Reverse(s) == [i \in 1..Len(s) |-> s[Len(s) + 1 - i]]

\* ---------------------------------------------- 64-bit microsecond counts
\* A u64 is eight base-256 digits, least significant first.
RECURSIVE mul_digits(_, _, _)
mul_digits(ds, k, carry) ==
    IF ds = <<>> THEN <<>>
    ELSE LET p == Head(ds) * k + carry
         IN  <<p % 256>> \o mul_digits(Tail(ds), k, p \div 256)

\* the remainder of a number given most significant digit first, behind the
\* remainder rem of the digits before it, by a divisor below 2^23
RECURSIVE rem_digits(_, _, _)
rem_digits(msf, k, rem) ==
    IF msf = <<>> THEN rem
    ELSE rem_digits(Tail(msf), k, (rem * 256 + Head(msf)) % k)

\* quotient (digits, most significant first) and remainder of a number given
\* most significant digit first, by a divisor below 2^23: long division,
\* each digit from the remainder of the digits before it
div_digits(msf, k, rem) ==
    [q |-> [i \in 1..Len(msf) |->
              (rem_digits(SubSeq(msf, 1, i - 1), k, rem) * 256 + msf[i])
              \div k],
     r |-> rem_digits(msf, k, rem)]

\* a > b for two digit strings of one length, most significant first
RECURSIVE digits_gt(_, _)
digits_gt(a, b) ==
    IF a = <<>> THEN FALSE
    ELSE IF Head(a) # Head(b) THEN Head(a) > Head(b)
    ELSE digits_gt(Tail(a), Tail(b))

\* datetime.max is 9999-12-31T23:59:59.999999: 253402300799 s after the epoch
\* (0x3A_FFF4_417F), most significant digit first
MaxDatetimeSecs == <<0, 0, 0, 58, 255, 244, 65, 127>>

\* ------------------------------------------------ IEEE-754 doubles
\* A positive double is m * 2^e: [m, e] with m its 53-bit significand as
\* base-256 digits, least significant first, and e the binary exponent;
\* 0.0 has m all zero.

\* the value of an expression, worked out before it is used
Only(S) == CHOOSE x \in S : TRUE

\* the number of bits of a number given by its digits
digits_len(ds) ==
    LET top(nz) == IF nz = {} THEN 0
                   ELSE LET t == CHOOSE i \in nz : \A j \in nz : j <= i
                        IN  8 * (t - 1) + bit_length(ds[t])
    IN  top({i \in 1..Len(ds) : ds[i] # 0})

\* ds * 2^n, in as many digits as ds has (which hold it)
digits_shl(ds, n) ==
    [i \in 1..(n \div 8) |-> 0]
    \o mul_digits(SubSeq(ds, 1, Len(ds) - (n \div 8)), Pow2(n % 8), 0)

\* ds \div 2^n
digits_shr(ds, n) ==
    LET at(j) == IF j <= Len(ds) THEN ds[j] ELSE 0
    IN  [i \in 1..Len(ds) |->
            at(i + n \div 8) \div Pow2(n % 8)
            + (at(i + 1 + n \div 8) % Pow2(n % 8)) * Pow2(8 - (n % 8))]

\* bit n (bit 0 the least significant) of ds
digits_bit(ds, n) == (ds[n \div 8 + 1] \div Pow2(n % 8)) % 2

\* ds % 2^n = 0
digits_low_zero(ds, n) ==
    /\ \A i \in 1..(n \div 8) : ds[i] = 0
    /\ n % 8 # 0 => ds[n \div 8 + 1] % Pow2(n % 8) = 0

\* ds + 1 (which the digits hold)
digits_inc(ds) ==
    LET carried(k) == [i \in 1..Len(ds) |->
                          IF i < k THEN 0 ELSE IF i = k THEN ds[i] + 1
                          ELSE ds[i]]
    IN  carried(CHOOSE k \in 1..Len(ds) :
                    ds[k] # 255 /\ \A j \in 1..(k - 1) : ds[j] = 255)

\* the number of zero bits that open the binary fraction rem / den, rem > 0
RECURSIVE lead_zeros(_, _)
lead_zeros(rem, den) ==
    IF 2 * rem >= den THEN 0 ELSE 1 + lead_zeros(2 * rem, den)

\* ds * 2^e (ds of 54 bits or more, sticky: a fraction below its last bit was
\* dropped) rounded to the nearest double, ties to even
round_double(ds, sticky, e) ==
    LET \* a significand of 54 bits after the carry is 2^53
        carried(m, sh) ==
            IF digits_len(m) = 54
            THEN [m |-> digits_shr(m, 1), e |-> e + sh + 1]
            ELSE [m |-> m, e |-> e + sh]
        cut(m, sh) ==
            IF /\ digits_bit(ds, sh - 1) = 1
               /\ \/ sticky
                  \/ ~digits_low_zero(ds, sh - 1)
                  \/ digits_bit(m, 0) = 1
            THEN carried(digits_inc(m), sh)
            ELSE [m |-> m, e |-> e + sh]
        drop(sh) == cut(digits_shr(ds, sh), sh)
    IN  drop(digits_len(ds) - 53)

\* (secs * 10**6 + usec) / 10**6, the true division of timedelta.total_seconds,
\* as a double: the quotient is taken with k more bits, which make it a
\* number of 54 bits, and rounded
total_seconds(secs, usec) ==
    LET divide(n, k) ==
            Only({round_double(Reverse(d.q), d.r # 0, -k) :
                    d \in {div_digits(Reverse(shifted), 1000000, 0) :
                              shifted \in {digits_shl(n, k)}}})
        micros == Only({mul_digits(le, 1000000, usec) : le \in {LE(secs, 10)}})
    IN  IF secs = 0 /\ usec = 0 THEN [m |-> LE(0, 10), e |-> 0]
        ELSE IF secs = 0
        THEN divide(micros, 54 + lead_zeros(usec, 1000000))
        ELSE divide(micros, 54 - bit_length(secs))

\* x * 1e6 in double arithmetic (1e6 is a double)
times_1e6(x) ==
    IF digits_len(x.m) = 0 THEN x
    ELSE Only({round_double(p, FALSE, x.e) :
                 p \in {mul_digits(x.m, 1000000, 0)}})

\* int(y) for a double y >= 0, as digits
int_of(y) ==
    IF y.e >= 0 THEN digits_shl(y.m, y.e) ELSE digits_shr(y.m, -y.e)

\* struct.pack("<Q", n), n below 2^64 given by its digits
pack_Q(ds) == SubSeq(ds, 1, 8)

\* mktime() + microsecond / 1e6, the timestamp() of a naive datetime secs
\* whole seconds and usec microseconds after the epoch: the fraction is
\* rounded to a double, and its sum with the seconds is rounded again.  The
\* significand of the fraction lies below the last bit of the seconds, so
\* the digits of the exact sum are the digits of the two.
naive_timestamp(secs, usec) ==
    LET sum(f, shifted) ==
            [i \in 1..14 |-> shifted[i] + (IF i <= Len(f.m) THEN f.m[i] ELSE 0)]
        add(f) ==
            Only({round_double(sum(f, shifted), FALSE, f.e) :
                    shifted \in {digits_shl(LE(secs, 14), -f.e)}})
    IN  IF secs = 0 \/ usec = 0 THEN total_seconds(secs, usec)
        ELSE Only({add(f) : f \in {total_seconds(0, usec)}})

\* FieldWriter.timestamp: micros = int(t.timestamp() * 1e6) as a u64, least
\* significant byte first.  t.timestamp() is (t - epoch).total_seconds() for
\* an aware t and mktime() + microsecond / 1e6 for a naive one.
timestamp_micros(t) ==
    LET seconds == IF t.t = "naive datetime"
                   THEN naive_timestamp(t.v[1], t.v[2])
                   ELSE total_seconds(t.v[1], t.v[2])
    IN  Only({pack_Q(int_of(y)) : y \in {times_1e6(x) : x \in {seconds}}})

\* _read_field, TIMESTAMP_FIELDS: epoch + timedelta(microseconds=micros), and
\* the epoch itself when that overflows datetime.  A representable instant
\* is below 2^31 seconds in every stream of the model.
datetime_from_micros(digits) ==
    LET d == div_digits(Reverse(digits), 1000000, 0)
    IN  IF digits_gt(d.q, MaxDatetimeSecs)
        THEN DatetimeV(0, 0)
        ELSE DatetimeV(FromLE(Reverse(d.q)), d.r)

\* ------------------------------------------------ Section / Field codes
HEADER == 72
FRAME == 70
TIMESTAMP == 84
X_RESOLUTION == 88
Y_RESOLUTION == 89
COMPRESSION == 67
DEVICENAME == 68
DEVICEID == 73
PREVIEW_SECS == 80
MOTION_CONFIG == 77
LATITUDE == 76
LONGITUDE == 79
LOC_TIMESTAMP == 83
ALTITUDE == 65
ACCURACY == 85
FPS == 90
MODEL == 69
BRAND == 66
FIRMWARE == 86
CAMERA_SERIAL == 78
BACKGROUND_FRAME == 103
BIT_WIDTH == 119
FRAME_SIZE == 102
TIME_ON == 116
LAST_FFC_TIME == 99
TEMP_C == 97
LAST_FFC_TEMP_C == 98

TIMESTAMP_FIELDS == {TIMESTAMP, LOC_TIMESTAMP}
UINT32_FIELDS == {X_RESOLUTION, Y_RESOLUTION, FRAME_SIZE, TIME_ON,
                  LAST_FFC_TIME, DEVICEID, CAMERA_SERIAL}
UINT8_FIELDS == {COMPRESSION, BIT_WIDTH, PREVIEW_SECS, FPS, BACKGROUND_FRAME}
STRING_FIELDS == {DEVICENAME, MOTION_CONFIG, MODEL, BRAND, FIRMWARE}
FLOAT_FIELDS == {LATITUDE, LONGITUDE, ALTITUDE, ACCURACY, LAST_FFC_TEMP_C,
                 TEMP_C}

\* b"CPTV"
MAGIC == <<67, 80, 84, 86>>
\* b"\x02"
VERSION == 2

\* --------------------------------------------------- FieldWriter (writer.py)
\* A FieldWriter is [s: the buffered bytes, count: the number of fields].
FieldWriter == [s |-> <<>>, count |-> 0]

\* a field appended as it would be if it were not counted
fw_put_uncounted(fw, bs) == [s |-> fw.s \o bs, count |-> fw.count]

fw_put(fw, bs) == [s |-> fw.s \o bs, count |-> fw.count + 1]

\* struct.pack("<BBB", 1, code, val)
fw_uint8(fw, code, val) == fw_put(fw, <<1, code, val>>)
\* uint32 as it would be packed big-endian (">BBL")
fw_uint32_be(fw, code, val) == fw_put(fw, <<4, code>> \o Reverse(LE(val, 4)))
\* struct.pack("<BBL", 4, code, int(val))
fw_uint32(fw, code, val) == fw_put(fw, <<4, code>> \o LE(val, 4))
\* struct.pack("<BBQ", 8, code, val)
fw_uint64(fw, code, digits) == fw_put(fw, <<8, code>> \o digits)
\* the float32 nearest to the int n (ties to even), as struct.pack("<f", n)
\* converts it
float32_of_int(n) ==
    LET a == IF n < 0 THEN -n ELSE n
        len == bit_length(a)
        \* the 24 significand bits of a, and its exponent
        exact == [m |-> a * Pow2(24 - len), x |-> len - 1]
        cut(q, rem, half) ==
            IF rem > half \/ (rem = half /\ q % 2 = 1)
            THEN IF q + 1 = 16777216 THEN [m |-> 8388608, x |-> len]
                 ELSE [m |-> q + 1, x |-> len - 1]
            ELSE [m |-> q, x |-> len - 1]
        rounded == cut(a \div Pow2(len - 24), a % Pow2(len - 24),
                       Pow2(len - 25))
        pattern(f) == (f.x + 127) * 8388608 + (f.m - 8388608)
        signed(u) == IF n < 0 THEN u + NegZero ELSE u
    IN  IF n = 0 THEN 0
        ELSE signed(pattern(IF len <= 24 THEN exact ELSE rounded))

\* struct.pack("<BBf", 4, code, fval): fval is a float or an int
fw_float32(fw, code, fval) ==
    fw_put(fw, <<4, code>> \o LE(IF fval.t = "int" THEN float32_of_int(fval.v)
                                 ELSE fval.v, 4))
\* struct.pack("<BB", len(val), code) + val
fw_string(fw, code, val) == fw_put(fw, <<Len(val), code>> \o val)
fw_timestamp(fw, code, t) == fw_uint64(fw, code, timestamp_micros(t))
\* FieldWriter.write: struct.pack("<BB", section_type, self.count) + buffer
fw_write(fw, section_type) == <<section_type, fw.count>> \o fw.s

\* ------------------------------------------------------ CPTVWriter, pure
\* A Frame (frame.py) is a record of its attributes; pix is flattened.
Frame(pix, time_on, last_ffc_time, temp_c, last_ffc_temp_c, background_frame) ==
    [pix |-> pix, time_on |-> time_on, last_ffc_time |-> last_ffc_time,
     temp_c |-> temp_c, last_ffc_temp_c |-> last_ffc_temp_c,
     background_frame |-> background_frame]

FrameV(f) == [t |-> "Frame", v |-> f]

\* self.comp: exists is hasattr(self, "comp"), has_prev is
\* hasattr(self.comp, "prev_linear_pix")
NoComp == [exists |-> FALSE, has_prev |-> FALSE, prev |-> <<>>]
NewComp == [exists |-> TRUE, has_prev |-> FALSE, prev |-> <<>>]

\* The k-th of the field statements of write_header, in the order of the
\* source, applied to the FieldWriter fw.
header_field(fw, wm, k) ==
    CASE k = 1 -> fw_uint8(fw, COMPRESSION, 1)
      [] k = 2 -> fw_uint32(fw, X_RESOLUTION, COLS)
      [] k = 3 -> fw_uint32(fw, Y_RESOLUTION, ROWS)
      [] k = 4 -> IF truthy(wm.device_name)
                  THEN fw_string(fw, DEVICENAME, wm.device_name.v) ELSE fw
      [] k = 5 -> IF truthy(wm.device_id)
                  THEN fw_uint32(fw, DEVICEID, wm.device_id.v) ELSE fw
      [] k = 6 -> fw_timestamp(fw, TIMESTAMP, wm.timestamp)
      [] k = 7 -> IF truthy(wm.preview_secs)
                  THEN fw_uint8(fw, PREVIEW_SECS, wm.preview_secs.v) ELSE fw
      [] k = 8 -> IF truthy(wm.motion_config)
                  THEN fw_string(fw, MOTION_CONFIG, wm.motion_config.v) ELSE fw
      [] k = 9 -> IF truthy(wm.latitude)
                  THEN fw_float32(fw, LATITUDE, wm.latitude) ELSE fw
      [] k = 10 -> IF truthy(wm.longitude)
                   THEN fw_float32(fw, LONGITUDE, wm.longitude) ELSE fw
      [] k = 11 -> IF truthy(wm.altitude)
                   THEN fw_float32(fw, ALTITUDE, wm.altitude) ELSE fw
      [] k = 12 -> IF truthy(wm.accuracy)
                   THEN fw_float32(fw, ACCURACY, wm.accuracy) ELSE fw
      [] k = 13 -> IF truthy(wm.loc_timestamp)
                   THEN fw_timestamp(fw, LOC_TIMESTAMP, wm.loc_timestamp)
                   ELSE fw
      [] k = 14 -> IF truthy(wm.fps) THEN fw_uint8(fw, FPS, wm.fps.v) ELSE fw
      [] k = 15 -> IF truthy(wm.model)
                   THEN fw_string(fw, MODEL, wm.model.v) ELSE fw
      [] k = 16 -> IF truthy(wm.brand)
                   THEN fw_string(fw, BRAND, wm.brand.v) ELSE fw
      [] k = 17 -> IF truthy(wm.firmware)
                   THEN fw_string(fw, FIRMWARE, wm.firmware.v) ELSE fw
      [] k = 18 -> IF truthy(wm.camera_serial)
                   THEN fw_uint32(fw, CAMERA_SERIAL, wm.camera_serial.v)
                   ELSE fw
      [] k = 19 -> IF wm.background_frame.t # "None"
                   THEN fw_uint8(fw, BACKGROUND_FRAME, 1) ELSE fw

\* what two runs of field statements append, one behind the other
fw_join(fw1, fw2) == [s |-> fw1.s \o fw2.s, count |-> fw1.count + fw2.count]

\* what the field statements lo..hi append to a FieldWriter
RECURSIVE header_fields_between(_, _, _)
header_fields_between(wm, lo, hi) ==
    IF lo = hi THEN header_field(FieldWriter, wm, lo)
    ELSE fw_join(header_fields_between(wm, lo, (lo + hi) \div 2),
                 header_fields_between(wm, (lo + hi) \div 2 + 1, hi))

\* The header section's fields, in the order write_header emits them.
header_fields(wm) == header_fields_between(wm, 1, 19)

\* What write_header writes to the new gzip stream before the background
\* frame: MAGIC, VERSION and the header section.
header_bytes(wm) == MAGIC \o <<VERSION>> \o fw_write(header_fields(wm), HEADER)

\* frame.time_on / timedelta(milliseconds=1), then int(): whole milliseconds
millis(td) == td.v \div 1000

\* the fields of a frame section as they would be with a frame size that
\* leaves out the four bytes of the start value
frame_fields_unseeded(frame, bit_width, frame_buf) ==
    LET f1 == fw_uint32(FieldWriter, TIME_ON, millis(frame.time_on))
        f2 == fw_uint32(f1, LAST_FFC_TIME, millis(frame.last_ffc_time))
        f3 == fw_uint8(f2, BIT_WIDTH, bit_width)
        f4 == fw_float32(f3, TEMP_C, frame.temp_c)
        f5 == fw_float32(f4, LAST_FFC_TEMP_C, frame.last_ffc_temp_c)
        f6 == IF frame.background_frame
              THEN fw_uint8(f5, BACKGROUND_FRAME, 1) ELSE f5
    IN  fw_uint32(f6, FRAME_SIZE, Len(frame_buf))

\* The frame section's fields, in the order write_frame emits them.
frame_fields(frame, bit_width, frame_buf) ==
    LET f1 == fw_uint32(FieldWriter, TIME_ON, millis(frame.time_on))
        f2 == fw_uint32(f1, LAST_FFC_TIME, millis(frame.last_ffc_time))
        f3 == fw_uint8(f2, BIT_WIDTH, bit_width)
        f4 == fw_float32(f3, TEMP_C, frame.temp_c)
        f5 == fw_float32(f4, LAST_FFC_TEMP_C, frame.last_ffc_temp_c)
        f6 == IF frame.background_frame
              THEN fw_uint8(f5, BACKGROUND_FRAME, 1) ELSE f5
        f7 == fw_uint32(f6, FRAME_SIZE, Len(frame_buf) + 4)
    IN  f7

\* The statements of CPTVWriter.write_frame once self.comp is at hand: the
\* outcome, the compressor afterwards and the bytes written to self.s.  A None
\* time_on or last_ffc_time raises TypeError in the division, after
\* _next_frame has run.
write_frame_body(frame, c, legacy) ==
    LET written(r, c1) ==
            IF ~r.ok
            THEN [ok |-> FALSE, err |-> r.err, comp |-> c1, bytes |-> <<>>]
            ELSE IF frame.time_on.t = "None" \/ frame.last_ffc_time.t = "None"
            THEN [ok |-> FALSE, err |-> "TypeError", comp |-> c1,
                  bytes |-> <<>>]
            ELSE [ok |-> TRUE, err |-> "", comp |-> c1,
                  bytes |-> fw_write(frame_fields(frame, r.width, r.pack_data),
                                     FRAME)
                            \o pack_l(r.start_value) \o r.pack_data]
        compressed(r) ==
            written(r, [exists |-> TRUE, has_prev |-> TRUE, prev |-> r.prev])
    IN  compressed(next_frame(frame.pix, c, legacy))

\* write_frame as it would be if it made the compressor when it is missing
write_frame_unguarded(frame, c, legacy) ==
    write_frame_body(frame, IF c.exists THEN c ELSE NewComp, legacy)

\* CPTVWriter.write_frame on a writer whose compressor is c.  Without
\* self.comp (write_header never called) the first statement raises
\* AttributeError.
write_frame(frame, c, legacy) ==
    IF ~c.exists
    THEN [ok |-> FALSE, err |-> "AttributeError", comp |-> c, bytes |-> <<>>]
    ELSE write_frame_body(frame, c, legacy)

\* ------------------------------------------------------ CPTVReader, pure
\* A GzipFile opened for reading is [data, tail]: the bytes its complete
\* members decompress to, and tail, the exception it raises when a read goes
\* past them: "" when the file ends there (the read comes up short),
\* "EOFError" when a member without its end follows, "zlib.error" when a
\* member with damaged data follows.
Whole(data) == [data |-> data, tail |-> ""]

\* s.read(n) at offset pos of the decompressed stream: at most n bytes
read(src, pos, n) ==
    SubSeq(src, pos + 1, IF pos + n > Len(src) THEN Len(src) ELSE pos + n)

\* the exception raised where a read has come up short: the GzipFile's own,
\* or err, raised by the reader on the short bytes
ended(s, err) == IF s.tail # "" THEN s.tail ELSE err

Raise(err, pos) == [ok |-> FALSE, err |-> err, pos |-> pos]

\* b"" as a dictionary key (a field code read at the end of the stream)
EmptyCode == -1

\* the unknown-field branch as it would be if it read no payload
skip_len_none(data_len) == 0

\* "Unknown field, just slurp up the bytes": val = s.read(data_len)
skip_len(data_len) == data_len

\* CPTVReader._read_field at offset pos.  s.read(1)[0] raises IndexError at
\* the end of the stream, struct.unpack raises struct.error on a short read,
\* and a string or unknown payload is whatever s.read(data_len) returns.
read_field(s, pos) ==
    IF pos >= Len(s.data)
    THEN Raise(ended(s, "IndexError"), pos) @@ [ftype |-> 0, val |-> NoneV]
    ELSE IF pos + 1 >= Len(s.data) /\ s.tail # ""
    THEN Raise(s.tail, pos + 1) @@ [ftype |-> 0, val |-> NoneV]
    ELSE
    LET src == s.data
        data_len == src[pos + 1]
        ftype == IF pos + 1 < Len(src) THEN src[pos + 2] ELSE EmptyCode
        p == IF pos + 1 < Len(src) THEN pos + 2 ELSE pos + 1
        got(n) == read(src, p, n)
        Done(val, n) == [ok |-> TRUE, err |-> "", pos |-> p + Len(got(n)),
                         ftype |-> ftype, val |-> val]
        Fail(err, n) == [ok |-> FALSE, err |-> err, pos |-> p + Len(got(n)),
                         ftype |-> ftype, val |-> NoneV]
        \* s.read(n), all of whose bytes are needed
        exactly(n, err, val) ==
            IF Len(got(n)) < n THEN Fail(ended(s, err), n) ELSE Done(val, n)
        \* s.read(n), taken as it comes
        upto(n) ==
            IF Len(got(n)) < n /\ s.tail # "" THEN Fail(s.tail, n)
            ELSE Done(BytesV(got(n)), n)
    IN  CASE ftype \in UINT8_FIELDS ->
               exactly(1, "IndexError", IntV(got(1)[1]))
          [] ftype \in UINT32_FIELDS ->
               exactly(4, "struct.error", IntV(FromLE(got(4))))
          [] ftype \in STRING_FIELDS -> upto(data_len)
          [] ftype \in FLOAT_FIELDS ->
               exactly(4, "struct.error", FloatV(unpack_i(got(4))))
          [] ftype \in TIMESTAMP_FIELDS ->
               exactly(8, "struct.error", datetime_from_micros(got(8)))
          [] OTHER -> upto(skip_len(data_len))

NoFields == [c \in {} |-> NoneV]

\* what the calls of _read_field in the loop of _read_section return: from
\* pos on, field_count times or until a read raises
RECURSIVE reads_from(_, _, _)
reads_from(s, pos, field_count) ==
    IF field_count = 0 THEN <<>>
    ELSE CHOOSE reads \in
             {<<f>> \o (IF f.ok THEN reads_from(s, f.pos, field_count - 1)
                        ELSE <<>>) : f \in {read_field(s, pos)}} : TRUE

\* the loop of _read_section: fields[ftype] = value, field_count times; a
\* code read twice keeps its last value
read_fields(s, pos, field_count, fields) ==
    LET dict(reads, n) ==
            [c \in {reads[i].ftype : i \in 1..n} |->
                reads[CHOOSE i \in 1..n :
                          /\ reads[i].ftype = c
                          /\ \A j \in (i + 1)..n : reads[j].ftype # c].val]
            @@ fields
        looped(reads, n) ==
            IF ~reads[n].ok
            THEN [ok |-> FALSE, err |-> reads[n].err, pos |-> reads[n].pos,
                  fields |-> dict(reads, n - 1)]
            ELSE [ok |-> TRUE, err |-> "", pos |-> reads[n].pos,
                  fields |-> dict(reads, n)]
    IN  IF field_count = 0
        THEN [ok |-> TRUE, err |-> "", pos |-> pos, fields |-> fields]
        ELSE CHOOSE r \in {looped(reads, Len(reads)) :
                              reads \in {reads_from(s, pos, field_count)}} :
                 TRUE

\* CPTVReader._read_section at offset pos: EOFError("short read") when the
\* section type reads as b""
read_section(s, pos) ==
    IF pos >= Len(s.data)
    THEN Raise(ended(s, "EOFError"), pos)
         @@ [section_type |-> 0, fields |-> NoFields]
    ELSE IF pos + 1 >= Len(s.data)
    THEN Raise(ended(s, "IndexError"), pos + 1)
         @@ [section_type |-> s.data[pos + 1], fields |-> NoFields]
    ELSE read_fields(s, pos + 2, s.data[pos + 2], NoFields)
         @@ [section_type |-> s.data[pos + 1]]

\* dict.get as it would be with the default dropped
get_no_default(fields, key, default) ==
    IF key \in DOMAIN fields THEN fields[key] ELSE NoneV

\* dict.get(key, default)
get(fields, key, default) ==
    IF key \in DOMAIN fields THEN fields[key] ELSE default

\* the version check as it would be if any version byte were accepted
version_supported_any(version) == TRUE

\* self.version not in (1, 2) raises IOError("unsupported version")
version_supported(version) == version \in {1, 2}

\* self.compression != 1 raises ValueError
compression_supported(compression) == compression = 1

\* CPTVReader._read_header: the reader's attributes, or the exception that
\* ends construction.
NoAttrs == [version |-> 0]

read_header(s) ==
    LET src == s.data
        Bad(err, pos) == Raise(err, pos) @@ [attrs |-> NoAttrs]
        \* from "section_type, fields = self._read_section(s)" on
        parse(sec, fields) ==
            IF ~sec.ok THEN Bad(sec.err, sec.pos)
            ELSE IF sec.section_type # HEADER THEN Bad("IOError", sec.pos)
            ELSE IF COMPRESSION \notin DOMAIN fields
            THEN Bad("KeyError", sec.pos)
            ELSE IF ~compression_supported(fields[COMPRESSION].v)
            THEN Bad("ValueError", sec.pos)
            ELSE IF \E k \in {TIMESTAMP, X_RESOLUTION, Y_RESOLUTION} :
                        k \notin DOMAIN fields
            THEN Bad("KeyError", sec.pos)
            ELSE [ok |-> TRUE, err |-> "", pos |-> sec.pos,
                  attrs |->
                    [version |-> src[5],
                     compression |-> fields[COMPRESSION].v,
                     timestamp |-> fields[TIMESTAMP],
                     x_resolution |-> fields[X_RESOLUTION].v,
                     y_resolution |-> fields[Y_RESOLUTION].v,
                     device_name |-> get(fields, DEVICENAME, NoneV),
                     device_id |-> get(fields, DEVICEID, IntV(0)),
                     preview_secs |-> get(fields, PREVIEW_SECS, IntV(0)),
                     motion_config |-> get(fields, MOTION_CONFIG, NoneV),
                     latitude |-> get(fields, LATITUDE, FloatV(0)),
                     longitude |-> get(fields, LONGITUDE, FloatV(0)),
                     loc_timestamp |-> get(fields, LOC_TIMESTAMP, IntV(0)),
                     altitude |-> get(fields, ALTITUDE, IntV(0)),
                     accuracy |-> get(fields, ACCURACY, IntV(0)),
                     fps |-> get(fields, FPS, IntV(0)),
                     model |-> get(fields, MODEL, NoneV),
                     brand |-> get(fields, BRAND, NoneV),
                     firmware |-> get(fields, FIRMWARE, NoneV),
                     camera_serial |-> get(fields, CAMERA_SERIAL, IntV(0)),
                     background_frames |->
                         get(fields, BACKGROUND_FRAME, IntV(0))]]
        section(sec) == parse(sec, sec.fields)
    IN  IF Len(src) < 4 /\ s.tail # "" THEN Bad(s.tail, Len(src))
        ELSE IF read(src, 0, 4) # MAGIC THEN Bad("IOError", Len(read(src, 0, 4)))
        ELSE IF Len(src) < 5 THEN Bad(ended(s, "IndexError"), 4)
        ELSE IF ~version_supported(src[5]) THEN Bad("IOError", 5)
        ELSE section(read_section(s, 5))

\* np.cumsum
RECURSIVE cumsum_from(_, _)
cumsum_from(s, acc) ==
    IF s = <<>> THEN <<>>
    ELSE <<acc + Head(s)>> \o cumsum_from(Tail(s), acc + Head(s))
cumsum(s) == cumsum_from(s, 0)

\* CPTVReader._fetch_aux for index i (0-based): the offset of the first of the
\* three bytes read (lookup_high) and the right shift (lookup_bit)
lookup_high(i, packed_bit_width) == (i * packed_bit_width) \div 8 + 5 - 1
lookup_bit(i, packed_bit_width) ==
    (24 - packed_bit_width) - ((i * packed_bit_width) % 8)

\* the table-driven unpack of value i from source (already extended by the
\* two zero bytes): the 24-bit window, shifted and sign-extended
unpack_at(source, i, packed_bit_width) ==
    LET h == lookup_high(i, packed_bit_width)
        window == 65536 * source[h + 1] + 256 * source[h + 2] + source[h + 3]
        mask == Pow2(packed_bit_width) - 1
        max_packed_value == Pow2(packed_bit_width - 1)
    IN  (((window \div Pow2(lookup_bit(i, packed_bit_width)))
          + max_packed_value) % (mask + 1)) - max_packed_value

\* s[1:] of _decompress_frame for a frame of n values: source holds the
\* 4-byte start value and rest packed bytes, padded is source extended by the
\* two zero bytes
unpack_deltas(source, padded, rest, packed_bit_width, n) ==
    IF packed_bit_width = 8
    THEN \* source[4:].astype("b"): equal lengths, or one value broadcast
         \* over the whole slice
         [i \in 1..(n - 1) |-> astype_b(source[IF rest = 1 THEN 5 ELSE 4 + i])]
    ELSE [i \in 1..(n - 1) |-> unpack_at(padded, i - 1, packed_bit_width)]

\* CPTVReader._decompress_frame(current_frame, source, packed_bit_width):
\* the frame and the updated reference (current_frame is updated in place),
\* or the exception raised.
decompress_frame(current_frame, source, packed_bit_width, x_resolution, y_resolution) ==
    LET n == x_resolution * y_resolution
        Bad(err) == [ok |-> FALSE, err |-> err, pix |-> <<>>,
                     linear |-> current_frame]
        \* pix_signed = current_frame[self._get_snake()], cast unsigned
        unsnake(linear, snake) ==
            [ok |-> TRUE, err |-> "",
             pix |-> [i \in 1..n |-> astype_H(linear[snake[i] + 1])],
             linear |-> linear]
        \* current_frame += np.cumsum(s)
        snaked(linear) == unsnake(linear, get_snake(x_resolution, y_resolution))
        add(sums) ==
            Once([i \in 1..n |-> astype_h(current_frame[i] + sums[i])], snaked)
        Good(deltas) ==
            Once(cumsum(<<unpack_i(SubSeq(source, 1, 4))>> \o deltas), add)
        \* s[1:] of each branch
        s_rest(rest, padded) ==
            unpack_deltas(source, padded, rest, packed_bit_width, n)
        check(rest, padded) ==
            IF packed_bit_width = 8
            THEN IF rest = n - 1 \/ rest = 1 THEN "" ELSE "ValueError"
            ELSE IF \E i \in 0..(n - 2) :
                        lookup_high(i, packed_bit_width) + 3 > Len(padded)
            THEN "IndexError"
            ELSE IF packed_bit_width = 0 THEN "ValueError"
            ELSE ""
        unpack(rest, padded) ==
            IF check(rest, padded) # "" THEN Bad(check(rest, padded))
            ELSE Good(s_rest(rest, padded))
    IN  IF Len(source) < 4 THEN Bad("struct.error")
        ELSE IF n = 0 THEN Bad("IndexError")
        ELSE IF packed_bit_width > 16 THEN Bad("IOError")
        ELSE unpack(Len(source) - 4, source \o <<0, 0>>)

\* the frame attributes as they would be without the version test
frame_meta_ungated(version, fields) ==
    [time_on |-> TimedeltaV(1000 * get(fields, TIME_ON, IntV(0)).v),
     last_ffc_time |-> TimedeltaV(1000 * get(fields, LAST_FFC_TIME, IntV(0)).v),
     temp_c |-> get(fields, TEMP_C, IntV(0)),
     last_ffc_temp_c |-> get(fields, LAST_FFC_TEMP_C, IntV(0)),
     background_frame |-> get(fields, BACKGROUND_FRAME, IntV(0)).v > 0]

\* __iter__, "if self.version >= 2: ... else: ...": the attributes of the
\* frame beside pix
frame_meta(version, fields) ==
    IF version >= 2
    THEN [time_on |-> TimedeltaV(1000 * get(fields, TIME_ON, IntV(0)).v),
          last_ffc_time |->
              TimedeltaV(1000 * get(fields, LAST_FFC_TIME, IntV(0)).v),
          temp_c |-> get(fields, TEMP_C, IntV(0)),
          last_ffc_temp_c |-> get(fields, LAST_FFC_TEMP_C, IntV(0)),
          background_frame |-> get(fields, BACKGROUND_FRAME, IntV(0)).v > 0]
    ELSE [time_on |-> NoneV, last_ffc_time |-> NoneV, temp_c |-> IntV(0),
          last_ffc_temp_c |-> IntV(0), background_frame |-> FALSE]

\* where self.s stands once self.s.read(frame_size) has returned packed_delta:
\* past the section's fields and the bytes read
tell_after_frame(section_start, fields_end, packed_delta) ==
    fields_end + Len(packed_delta)

\* One pass of the loop in CPTVReader.__iter__, from the stream offset pos
\* with reference linear_pix: a frame is yielded, the generator returns
\* (an EOFError out of _read_section: the stream ends at a section boundary,
\* or gzip raises its own where a member that was never closed ends) or an
\* exception is raised.
iter_step(attrs, s, pos, linear_pix) ==
    LET Out(kind, err, p, frame, lin) ==
            [kind |-> kind, err |-> err, pos |-> p, frame |-> frame,
             linear_pix |-> lin]
        NoFrame == Frame(<<>>, NoneV, NoneV, IntV(0), IntV(0), FALSE)
        \* yield Frame(pix, time_on, ...)
        yield(p2, d, m) ==
            Out("yield", "", p2,
                Frame(d.pix, m.time_on, m.last_ffc_time, m.temp_c,
                      m.last_ffc_temp_c, m.background_frame),
                d.linear)
        \* pix = self._decompress_frame(linear_pix, packed_delta, bit_width)
        decompressed(fields, p2, d) ==
            IF ~d.ok THEN Out("raise", d.err, p2, NoFrame, linear_pix)
            ELSE yield(p2, d, frame_meta(attrs.version, fields))
        \* packed_delta = np.frombuffer(self.s.read(frame_size), ...)
        payload(sec, fields, packed_delta) ==
            LET decoded(d) ==
                    decompressed(fields,
                                 tell_after_frame(pos, sec.pos, packed_delta),
                                 d)
            IN  Once(decompress_frame(linear_pix, packed_delta,
                                      fields[BIT_WIDTH].v, attrs.x_resolution,
                                      attrs.y_resolution),
                     decoded)
        \* section_type, fields = self._read_section(s)
        section(sec, fields) ==
            IF ~sec.ok /\ sec.err = "EOFError"
            THEN Out("return", "", sec.pos, NoFrame, linear_pix)
            ELSE IF ~sec.ok
            THEN Out("raise", sec.err, sec.pos, NoFrame, linear_pix)
            ELSE IF sec.section_type # FRAME
            THEN Out("raise", "IOError", sec.pos, NoFrame, linear_pix)
            ELSE IF FRAME_SIZE \notin DOMAIN fields
                    \/ BIT_WIDTH \notin DOMAIN fields
            THEN Out("raise", "KeyError", sec.pos, NoFrame, linear_pix)
            ELSE IF sec.pos + fields[FRAME_SIZE].v > Len(s.data)
                    /\ s.tail # ""
            THEN Out("raise", s.tail, Len(s.data), NoFrame, linear_pix)
            ELSE payload(sec, fields,
                         read(s.data, sec.pos, fields[FRAME_SIZE].v))
        loop(sec) == section(sec, sec.fields)
    IN  Once(read_section(s, pos), loop)

\* ================================================================ state
VARIABLES
    legacy_promotion, \* the numpy installed: legacy or NEP 50 scalar promotion
    wm,       \* CPTVWriter: the metadata attributes set by the caller
    sink,     \* fileobj: the gzip members written to it, each [mtime, data
              \*   (the bytes compressed so far), closed, split (the next
              \*   member was begun before this one was closed)]
    ws,       \* CPTVWriter.s: the index in sink of its GzipFile, 0 = not set
    comp,     \* CPTVWriter.comp (a Compressor) and its prev_linear_pix
    wres,     \* the outcome of the last call on the writer
    wlog,     \* history: the frames write_frame returned normally for, since
              \*   the last write_header
    ncalls,   \* number of write_frame calls made by the caller
    nhdr,     \* number of write_header calls made by the caller
    rd,       \* CPTVReader: state, attributes, offset of self.s,
              \*   frame_file_offset
    its,      \* the generators obtained from the reader's __iter__
    given     \* history: how a file handed to the reader was put together

vars == <<legacy_promotion, wm, sink, ws, comp, wres, wlog, ncalls, nhdr,
          rd, its, given>>
writer_vars == <<wm, sink, ws, comp, wres, wlog, ncalls, nhdr>>

\* ---------------------------------------------------------------- inputs
\* the value datetime.now() returns in the runs of the model: a naive local
\* time, with microseconds
Clock == {NaiveV(1536225685, 774768)}

\* the first k pixels (row-major) are b, the others c
step_frame(b, c, k) == [i \in 1..NPix |-> IF i <= k THEN b ELSE c]
\* b and c alternate along the snake scan
alt_frame(b, c) ==
    [i \in 1..NPix |-> IF twisted(COLS, i - 1) % 2 = 0 THEN b ELSE c]

\* Frames whose delta-of-deltas take the writer through every bit width:
\* every pixel equal (8), a step of 300 (12), a step of 32468 (16), a step of
\* 32768 beside equal pixels (a delta-of-delta of -32768 among zeros), and 0
\* and 32768 alternating (every delta-of-delta is -32768).
PixInputs ==
    {step_frame(300, 300, 1), step_frame(0, 300, 1), step_frame(300, 32768, 1),
     step_frame(0, 32768, 1), alt_frame(0, 32768)}

\* new_frame(pix) of the tests:
\* Frame(pix, timedelta(seconds=0), timedelta(seconds=0), 0.0, 0.0)
new_frame(pix) ==
    Frame(pix, TimedeltaV(0), TimedeltaV(0), FloatV(0), FloatV(0), FALSE)

\* random_frame(time_on, last_ffc_time) of the tests, with the values it
\* draws (pix, and the two temperatures as ints) given
random_frame(time_on, last_ffc_time, pix, temp_c, last_ffc_temp_c) ==
    Frame(pix, TimedeltaV(1000000 * time_on),
          TimedeltaV(1000000 * last_ffc_time), IntV(temp_c),
          IntV(last_ffc_temp_c), FALSE)

\* a frame as a version 1 file yields it: no time_on, no last_ffc_time
v1_frame == Frame(step_frame(300, 300, 1), NoneV, NoneV, IntV(0), IntV(0), FALSE)

FrameInputs ==
    {new_frame(p) : p \in PixInputs}
    \cup {random_frame(60, 30, step_frame(3000, 5999, 1), 2800, 2999), v1_frame}

\* the class attributes of CPTVWriter
DefaultMeta ==
    [timestamp |-> NoneV, device_name |-> NoneV, latitude |-> NoneV,
     longitude |-> NoneV, altitude |-> NoneV, accuracy |-> NoneV,
     loc_timestamp |-> NoneV, preview_secs |-> NoneV, device_id |-> NoneV,
     motion_config |-> NoneV, fps |-> NoneV, model |-> NoneV, brand |-> NoneV,
     firmware |-> NoneV, camera_serial |-> NoneV, background_frame |-> NoneV]

ItIds == {1, 2}

NoReader == [state |-> "none", err |-> "", attrs |-> NoAttrs, pos |-> 0,
             frame_file_offset |-> 0, file |-> Whole(<<>>)]
NoIter == [status |-> "unused", linear_pix |-> <<>>, out |-> <<>>, err |-> "",
           after_end |-> FALSE]
NoCall == [op |-> "", ok |-> TRUE, err |-> ""]
NotGiven == [kind |-> "written"]

\* the caller assigned nothing
Unset == [a \in {} |-> NoneV]

\* CPTVWriter(fileobj) on an empty fileobj, self.timestamp = datetime.now(),
\* then the caller's assignments to the writer's attributes; no reader yet
InitWith(assigned) ==
    /\ legacy_promotion \in BOOLEAN
    /\ \E now \in Clock :
          wm = [a \in DOMAIN DefaultMeta |->
                   IF a \in DOMAIN assigned THEN assigned[a]
                   ELSE IF a = "timestamp" THEN now
                   ELSE DefaultMeta[a]]
    /\ sink = <<>>
    /\ ws = 0
    /\ comp = NoComp
    /\ wres = NoCall
    /\ wlog = <<>>
    /\ ncalls = 0
    /\ nhdr = 0
    /\ rd = NoReader
    /\ its = [i \in ItIds |-> NoIter]
    /\ given = NotGiven

\* the background frame some callers set before write_header
bg_frame == [new_frame(step_frame(300, 0, 1)) EXCEPT !.background_frame = TRUE]

Init ==
    \/ InitWith(Unset)
    \/ InitWith([background_frame |-> FrameV(bg_frame)])

\* ---------------------------------------------------------------- writer
WriterClosed == ws > 0 /\ sink[ws].closed

\* CPTVWriter.write_header.  A new GzipFile is opened on fileobj and bound to
\* self.s, a new Compressor to self.comp; the GzipFile bound before, if any,
\* loses its last reference and is finalised (closed) or not, as the
\* interpreter's garbage collection decides.  Opening the GzipFile writes
\* the new member's gzip header to fileobj at once, behind the header of a
\* member still open, whose compressed data then comes too late: that
\* member is split.
write_header(called, w, snk, c, legacy, finalised, now) ==
    LET old == [i \in 1..Len(snk) |->
                  [snk[i] EXCEPT !.closed = @ \/ finalised,
                                 !.split = @ \/ ~snk[i].closed]]
        \* r is the outcome of write_frame(self.background_frame), if any
        done(w1, bg, r) ==
            [ok |-> r.ok, err |-> r.err, wm |-> w1, comp |-> r.comp,
             sink |-> Append(old, [mtime |-> w1.timestamp.v[1],
                                   data |-> header_bytes(w1) \o r.bytes,
                                   closed |-> FALSE, split |-> FALSE]),
             ws |-> Len(snk) + 1,
             wlog |-> IF bg.t # "None" /\ r.ok THEN <<bg.v>> ELSE <<>>]
        header(w1, bg) ==
            done(w1, bg,
                 IF bg.t = "None"
                 THEN [ok |-> TRUE, err |-> "", comp |-> NewComp,
                       bytes |-> <<>>]
                 ELSE write_frame(bg.v, NewComp, legacy))
        \* if not self.timestamp: self.timestamp = datetime.now()
        dated(w1) == header(w1, w1.background_frame)
    IN  dated(IF truthy(w.timestamp) THEN w ELSE [w EXCEPT !.timestamp = now])

WriteHeader ==
    /\ nhdr < MaxHeaders
    /\ \E finalised \in {FALSE} \cup {ws > 0}, now \in Clock :
         LET returns(r) ==
                 /\ wm' = r.wm
                 /\ sink' = r.sink
                 /\ ws' = r.ws
                 /\ comp' = r.comp
                 /\ wlog' = r.wlog
                 /\ wres' = [op |-> "write_header", ok |-> r.ok, err |-> r.err]
         IN  returns(write_header(nhdr, wm, sink, comp, legacy_promotion,
                                  finalised, now))
    /\ nhdr' = nhdr + 1
    /\ UNCHANGED <<legacy_promotion, ncalls, rd, its, given>>

\* self.s.write on a GzipFile that was closed raises ValueError: the first
\* write of write_frame, made once _next_frame has run and the fields are
\* put together
write_closed(closed, r) ==
    IF closed /\ r.ok
    THEN [r EXCEPT !.ok = FALSE, !.err = "ValueError", !.bytes = <<>>]
    ELSE r

\* CPTVWriter.write_frame(frame)
WriteFrameOf(frames) ==
    /\ ncalls < MaxFrames
    /\ \E f \in frames :
         LET returns(r) ==
                 /\ comp' = r.comp
                 /\ sink' = IF r.bytes = <<>> THEN sink
                            ELSE [sink EXCEPT ![ws].data = @ \o r.bytes]
                 /\ wlog' = IF r.ok THEN Append(wlog, f) ELSE wlog
                 /\ wres' = [op |-> "write_frame", ok |-> r.ok, err |-> r.err]
         IN  returns(write_closed(WriterClosed,
                                  write_frame(f, comp, legacy_promotion)))
    /\ ncalls' = ncalls + 1
    /\ UNCHANGED <<legacy_promotion, wm, ws, nhdr, rd, its, given>>

WriteFrame == WriteFrameOf(FrameInputs)

\* CPTVWriter.close: self.s.close() writes the compressed data and the gzip
\* trailer, and does nothing on a GzipFile already closed; without self.s it
\* raises AttributeError.
Close ==
    /\ IF ws = 0
       THEN /\ wres' = [op |-> "close", ok |-> FALSE, err |-> "AttributeError"]
            /\ sink' = sink
       ELSE /\ wres' = [op |-> "close", ok |-> TRUE, err |-> ""]
            /\ sink' = [sink EXCEPT ![ws].closed = TRUE]
    /\ UNCHANGED <<legacy_promotion, wm, ws, comp, wlog, ncalls, nhdr, rd, its,
                   given>>

\* ---------------------------------------------------------------- reader
\* What gzip.GzipFile(fileobj, "rb") reads from the members of fileobj from
\* the i-th on.  A member that was closed before the next was begun
\* decompresses to its data; one still open is its gzip header alone, the
\* data being held back by the compressor until close (the streams of the
\* model are far shorter than its buffers); a split one is its
\* gzip header with the next member's header where its data should be.
RECURSIVE gzip_members(_, _)
gzip_members(snk, i) ==
    LET then(rest) == [data |-> snk[i].data \o rest.data, tail |-> rest.tail]
    IN  IF i > Len(snk) THEN Whole(<<>>)
        ELSE IF snk[i].split THEN [data |-> <<>>, tail |-> "zlib.error"]
        ELSE IF ~snk[i].closed THEN [data |-> <<>>, tail |-> "EOFError"]
        ELSE then(gzip_members(snk, i + 1))

\* the GzipFile a reader constructed now would read
Fileobj == gzip_members(sink, 1)

\* the bytes written so far to the gzip member the writer began first
Written == sink[1].data

\* what the reader's GzipFile decompresses to
Stream == rd.file.data

\* CPTVReader(fileobj) on a copy of what fileobj holds: the writer's output so
\* far, or a given file.
OpenReader ==
    /\ rd.state = "none"
    /\ LET constructed(f, h) ==
               rd' = [state |-> IF h.ok THEN "HeaderParsed" ELSE "Failed",
                      err |-> h.err, attrs |-> h.attrs, pos |-> h.pos,
                      frame_file_offset |-> h.pos, file |-> f]
           opened(f) == constructed(f, read_header(f))
       IN  opened(Fileobj)
    /\ UNCHANGED <<legacy_promotion, writer_vars, its, given>>

\* __iter__ as it would be without the seek: it reads on from where self.s is
iter_start_pos_noseek(r) == r.pos

\* s.seek(self.frame_file_offset), the first statement of __iter__
iter_start_pos(r) == r.frame_file_offset

\* next() on generator i.  The first next() runs __iter__ from its top: it
\* seeks self.s and creates the zero reference frame.  self.s is shared by
\* all generators of the reader.
IterNext(i) ==
    /\ rd.state = "HeaderParsed"
    /\ its[i].status \in {"unused", "running"}
    /\ \A j \in ItIds : j < i => its[j].status # "unused"
    /\ LET n == rd.attrs.x_resolution * rd.attrs.y_resolution
           resumed(first, r) ==
               /\ rd' = [rd EXCEPT !.pos = r.pos]
               /\ its' = [its EXCEPT ![i] =
                     [status |-> CASE r.kind = "yield" -> "running"
                                   [] r.kind = "return" -> "done"
                                   [] OTHER -> "failed",
                      linear_pix |-> r.linear_pix,
                      out |-> IF r.kind = "yield" THEN Append(@.out, r.frame)
                              ELSE @.out,
                      err |-> r.err,
                      after_end |-> IF first
                                    THEN \E j \in ItIds :
                                            its[j].status \in {"done", "failed"}
                                    ELSE @.after_end]]
           next(first) ==
               \E r \in {iter_step(rd.attrs, rd.file,
                                    IF first THEN iter_start_pos(rd) ELSE rd.pos,
                                    IF first THEN [k \in 1..n |-> 0]
                                    ELSE its[i].linear_pix)} :
                   resumed(first, r)
       IN  next(its[i].status = "unused")
    /\ UNCHANGED <<legacy_promotion, writer_vars, given>>

Next ==
    \/ WriteHeader
    \/ WriteFrame
    \/ Close
    \/ OpenReader
    \/ \E i \in ItIds : IterNext(i)

Spec == Init /\ [][Next]_vars

\* ------------------------------------------- metadata round trip (header)
\* The attributes a caller may set on the writer before write_header.
MetaAttrs ==
    {"timestamp", "device_name", "latitude", "longitude", "altitude",
     "accuracy", "loc_timestamp", "preview_secs", "device_id", "motion_config",
     "fps", "model", "brand", "firmware", "camera_serial"}

Bytes255 == [i \in 1..255 |-> 65 + (i % 26)]

\* The value profile p gives attribute a: "test" holds the values of
\* test_round_trip_header (142.3 and -39.2 as the float32 nearest to them),
\* "edge" the largest values of each field, "falsy" the values Python takes
\* for false.
meta_value(p, a) ==
    CASE p = "falsy" ->
           (CASE a \in {"device_name", "motion_config", "model", "brand",
                        "firmware"} -> BytesV(<<>>)
              [] a \in {"latitude", "longitude", "altitude", "accuracy"} ->
                   FloatV(0)
              [] a \in {"timestamp", "loc_timestamp"} -> NoneV
              [] OTHER -> IntV(0))
      [] p = "edge" ->
           (CASE a = "device_name" -> BytesV(Bytes255)
              [] a \in {"motion_config", "model", "brand", "firmware"} ->
                   BytesV(<<255>>)
              [] a \in {"latitude", "longitude", "altitude", "accuracy"} ->
                   FloatV(2139095039)
              [] a \in {"timestamp", "loc_timestamp"} ->
                   DatetimeV(2147483647, 0)
              [] a \in {"preview_secs", "fps"} -> IntV(255)
              [] OTHER -> IntV(2147483647))
      [] OTHER ->
           (CASE a = "timestamp" -> DatetimeV(1530853443, 0)
              [] a = "device_name" -> BytesV(<<104, 101, 108, 108, 111>>)
              [] a = "device_id" -> IntV(42)
              [] a = "latitude" -> FloatV(1125010637)
              [] a = "longitude" -> FloatV(-1038299955)
              [] a = "loc_timestamp" -> DatetimeV(1536210243, 0)
              [] a = "preview_secs" -> IntV(3)
              [] a = "motion_config" -> BytesV(<<98, 108, 111, 98>>)
              [] a = "accuracy" -> IntV(20)
              [] a = "altitude" -> IntV(200)
              [] a = "fps" -> IntV(30)
              [] a = "model" -> BytesV(<<117, 108, 116, 114, 97>>)
              [] a = "brand" -> BytesV(<<108, 97, 115, 101, 114>>)
              [] a = "firmware" -> BytesV(<<107, 105, 108, 108, 101, 114>>)
              [] OTHER -> IntV(221))

\* the caller's assignments: the attributes of sel, from profile p
meta_of(sel, p) == [a \in sel |-> meta_value(p, a)]

\* nothing, everything, one attribute, or all but one
MetaSelections ==
    {{}, MetaAttrs} \cup {{a} : a \in MetaAttrs}
    \cup {MetaAttrs \ {a} : a \in MetaAttrs}

InitHeader ==
    \E sel \in MetaSelections, p \in {"test", "edge", "falsy"} :
        InitWith(meta_of(sel, p))

NextHeader ==
    \/ WriteHeader
    \/ WriteFrameOf({new_frame(step_frame(300, 300, 1))})
    \/ Close
    \/ OpenReader

SpecHeader == InitHeader /\ [][NextHeader]_vars

\* ------------------------------------------------ files given to a reader
\* the recording time in the header of a given file
given_time == DatetimeV(1536225685, 774768)

\* A header field as a well-formed record, by code.
given_field(code, compression) ==
    CASE code = COMPRESSION -> <<1, code, compression>>
      [] code = X_RESOLUTION -> <<4, code>> \o LE(COLS, 4)
      [] code = Y_RESOLUTION -> <<4, code>> \o LE(ROWS, 4)
      [] code = TIMESTAMP -> <<8, code>> \o timestamp_micros(given_time)
      [] code = TIME_ON -> <<4, code>> \o LE(60000, 4)
      [] code = LAST_FFC_TIME -> <<4, code>> \o LE(30000, 4)
      [] code = TEMP_C -> <<4, code>> \o LE(1101004800, 4)
      [] code = LAST_FFC_TEMP_C -> <<4, code>> \o LE(1101004800, 4)
      [] code = BACKGROUND_FRAME -> <<1, code, 1>>
      [] OTHER -> <<0, code>>

\* a section of the given type with the fields of codes, in order
given_section(section_type, codes, compression) ==
    <<section_type, Len(codes)>>
    \o Flatten([i \in 1..Len(codes) |-> given_field(codes[i], compression)])

Filter(codes, keep) == SelectSeq(codes, LAMBDA c : c \in keep)

HeaderCodes == <<COMPRESSION, X_RESOLUTION, Y_RESOLUTION, TIMESTAMP>>
FrameOptCodes == <<TIME_ON, LAST_FFC_TIME, TEMP_C, LAST_FFC_TEMP_C,
                   BACKGROUND_FRAME>>

\* a frame payload for bit width w: the seed, then NPix - 1 values (-1 and 0
\* in turn) packed at w bits, most significant bit first
given_payload(w) ==
    pack_l(300)
    \o fallback_loop(w, [i \in 1..(NPix - 1) |-> -(i % 2)], 0, 0)

\* a frame section with the optional fields opts, then 'w' and 'f', and the
\* payload
given_frame(w, opts) ==
    <<FRAME, Len(Filter(FrameOptCodes, opts)) + 2>>
    \o Flatten([i \in 1..Len(Filter(FrameOptCodes, opts)) |->
                   given_field(Filter(FrameOptCodes, opts)[i], 1)])
    \o <<1, BIT_WIDTH, w>>
    \o <<4, FRAME_SIZE>> \o LE(Len(given_payload(w)), 4)
    \o given_payload(w)

\* The reader is handed the first cut bytes of parts[1] \o parts[2] \o ...,
\* gzipped: parts[1] is magic, version and first section, the others are
\* frame sections.
InitGiven(version, hdr_codes, compression, parts, opts, cut) ==
    /\ legacy_promotion = TRUE
    /\ wm = DefaultMeta
    /\ sink = <<[mtime |-> 0, data |-> SubSeq(Flatten(parts), 1, cut),
                 closed |-> TRUE, split |-> FALSE]>>
    /\ ws = 0
    /\ comp = NoComp
    /\ wres = NoCall
    /\ wlog = <<>>
    /\ ncalls = 0
    /\ nhdr = 0
    /\ rd = NoReader
    /\ its = [i \in ItIds |-> NoIter]
    /\ given = [kind |-> "given", version |-> version, hdr_codes |-> hdr_codes,
                compression |-> compression,
                ends |-> [k \in 1..Len(parts) |->
                            Len(Flatten(SubSeq(parts, 1, k)))],
                opts |-> opts, cut |-> cut]

GoodHeader(version) ==
    MAGIC \o <<version>> \o given_section(HEADER, HeaderCodes, 1)

\* Headers that are wrong in one or more ways: the magic, the version byte,
\* the type of the first section, a required field left out, the compression.
InitBadHeaders ==
    \E magic \in {MAGIC, <<67, 80, 84, 87>>}, version \in 0..3,
       section_type \in {HEADER, FRAME},
       left_out \in {0, COMPRESSION, X_RESOLUTION, Y_RESOLUTION, TIMESTAMP},
       compression \in 0..2 :
        LET codes == SelectSeq(HeaderCodes, LAMBDA c : c # left_out)
        IN  InitGiven(version, {codes[i] : i \in 1..Len(codes)}, compression,
                      <<magic \o <<version>>
                        \o given_section(section_type, codes, compression)>>,
                      <<>>,
                      Len(magic) + 1
                      + Len(given_section(section_type, codes, compression)))

\* Version 1 and 2 files whose frame sections carry any of the optional
\* frame fields.
InitFrameFields ==
    \E version \in {1, 2}, o1 \in SUBSET {TIME_ON, LAST_FFC_TIME, TEMP_C,
                                           LAST_FFC_TEMP_C, BACKGROUND_FRAME} :
        LET parts == <<GoodHeader(version), given_frame(8, o1),
                       given_frame(12, {TIME_ON})>>
        IN  InitGiven(version, {COMPRESSION, X_RESOLUTION, Y_RESOLUTION,
                                TIMESTAMP}, 1,
                      parts, <<o1, {TIME_ON}>>, Len(Flatten(parts)))

\* Files of one or two frame sections, the first of any bit width, that end
\* at any offset.
InitTruncated ==
    \E version \in {1, 2}, w \in 1..16, two \in BOOLEAN :
        LET parts == <<GoodHeader(version), given_frame(w, {TIME_ON})>>
                     \o (IF two THEN <<given_frame(8, {TIME_ON})>> ELSE <<>>)
        IN  \E cut \in 0..Len(Flatten(parts)) :
                InitGiven(version, {COMPRESSION, X_RESOLUTION, Y_RESOLUTION,
                                    TIMESTAMP}, 1,
                          parts,
                          IF two THEN <<{TIME_ON}, {TIME_ON}>> ELSE <<{TIME_ON}>>,
                          cut)

InitRead == InitBadHeaders \/ InitFrameFields \/ InitTruncated

NextRead ==
    \/ OpenReader
    \/ \E i \in ItIds : IterNext(i)

SpecRead == InitRead /\ [][NextRead]_vars

\* ================================================================ claims
IsPrefix(a, b) == Len(a) <= Len(b) /\ SubSeq(b, 1, Len(a)) = a

\* the 'w' field of every frame section of a stream, from offset pos on
RECURSIVE frame_widths(_, _)
frame_widths(src, pos) ==
    LET widths(sec) ==
            IF ~sec.ok \/ sec.section_type # FRAME
               \/ FRAME_SIZE \notin DOMAIN sec.fields
               \/ BIT_WIDTH \notin DOMAIN sec.fields
            THEN <<>>
            ELSE <<sec.fields[BIT_WIDTH].v>>
                 \o frame_widths(src, sec.pos + sec.fields[FRAME_SIZE].v)
    IN  widths(read_section(Whole(src), pos))

\* Only generator 1 has run, and it has finished.
AloneFinished ==
    /\ rd.state = "HeaderParsed"
    /\ its[1].status \in {"done", "failed"}
    /\ its[2].status = "unused"

\* The file is write_header, then write_frame calls that all returned, then
\* close, on a writer without a background frame.
PlainFile ==
    /\ nhdr = 1
    /\ wm.background_frame.t = "None"
    /\ Len(wlog) = ncalls

\* C1 (as claimed): every sequence of frames written by write_header,
\* write_frame for each frame and close is read back whole: iterating the
\* reader yields as many frames as were written, the i-th with the i-th
\* frame's pix, also where the 16-bit delta arithmetic wraps.
C1_FramesRoundTrip ==
    (AloneFinished /\ PlainFile) =>
        /\ its[1].status = "done"
        /\ Len(its[1].out) = Len(wlog)
        /\ \A k \in 1..Len(wlog) : its[1].out[k].pix = wlog[k].pix

\* C2 (as claimed): the 'w' field of every frame section the writer emits is
\* 8, 12 or 16.
C2_WidthOnWrite ==
    \A m \in 1..Len(sink) :
        LET ws_ == frame_widths(sink[m].data,
                                read_header(Whole(sink[m].data)).pos)
        IN  \A k \in 1..Len(ws_) : ws_[k] \in {8, 12, 16}

\* C8 (as claimed): a second write_header on a writer is rejected with an
\* error and opens no second gzip stream with a second magic and header.
C8_SecondHeaderRejected ==
    (nhdr >= 2) =>
        /\ Len(sink) = 1
        /\ (wres.op = "write_header" => ~wres.ok)

\* C9: write_frame on a writer on which write_header was never called raises,
\* writes nothing and leaves every attribute of the writer as it was, so
\* the calls that follow behave as if it had not been made.
C9_FrameBeforeHeader ==
    [][(ncalls' = ncalls + 1 /\ nhdr = 0) =>
          /\ ~wres'.ok
          /\ wres'.op = "write_frame"
          /\ sink' = sink /\ ws' = ws /\ comp' = comp /\ wm' = wm
          /\ wlog' = wlog]_vars

\* C9 witness: a write_frame before any write_header has failed, and the
\* writer then wrote a header and a frame and was closed.
C9_Witness ==
    /\ ncalls = 2 /\ nhdr = 1 /\ Len(wlog) = 1
    /\ wm.background_frame.t = "None"
    /\ WriterClosed

\* C10 (as claimed): a new iteration begun after an earlier one has ended
\* yields no frames.
C10_NotRestartable ==
    \A i \in ItIds : its[i].after_end => its[i].out = <<>>

\* C10 (amended): a new iteration begun after an earlier one has ended starts
\* again at the first frame section with a zero reference: it yields the same
\* frames and ends the same way.
C10_Restarts ==
    its[2].after_end =>
        /\ IsPrefix(its[2].out, its[1].out)
        /\ (its[2].status \in {"done", "failed"} =>
              /\ its[2].out = its[1].out
              /\ its[2].status = its[1].status)

\* C10 witness: the second iteration, begun after the first was exhausted,
\* has yielded two frames and is exhausted too.
C10_Witness ==
    /\ its[2].after_end
    /\ its[2].status = "done"
    /\ Len(its[2].out) = 2

\* the reader attribute that carries each writer attribute of C3
C3Attrs ==
    {"timestamp", "device_name", "device_id", "preview_secs", "motion_config",
     "loc_timestamp", "fps", "model", "brand", "firmware", "camera_serial"}

\* the timestamps C3 is about: aware UTC datetimes of whole seconds (the
\* other values of the model's callers are within their fields)
in_range(x) ==
    x.t \in {"datetime", "naive datetime"} => x.t = "datetime" /\ x.v[2] = 0

\* C3: every one of timestamp, device_name, device_id, preview_secs,
\* motion_config, loc_timestamp, fps, model, brand, firmware and
\* camera_serial that is set to a truthy in-range value before write_header
\* is reported by a reader of the output with the value set, whatever frames
\* were written after the header, together with version 2 and the writer's
\* resolution.
C3_HeaderRoundTrip ==
    (rd.state = "HeaderParsed" /\ nhdr = 1) =>
        /\ rd.attrs.version = 2
        /\ rd.attrs.x_resolution = COLS
        /\ rd.attrs.y_resolution = ROWS
        /\ \A a \in C3Attrs :
              (truthy(wm[a]) /\ in_range(wm[a])) => same(rd.attrs[a], wm[a])

\* C3 witness: all attributes were set (device_name to 255 bytes), a frame
\* was written, and the reader has parsed the header.
C3_Witness ==
    /\ rd.state = "HeaderParsed"
    /\ \A a \in C3Attrs : truthy(wm[a]) /\ in_range(wm[a])
    /\ Len(wm.device_name.v) = 255
    /\ Len(wlog) >= 1

NoneDefaultAttrs == {"device_name", "motion_config", "model", "brand", "firmware"}
ZeroDefaultAttrs ==
    {"device_id", "preview_secs", "fps", "camera_serial", "latitude",
     "longitude", "altitude", "accuracy"}

\* C4 (as claimed): a field the writer left out of the header reads back as
\* None for device_name, motion_config, model, brand, firmware and
\* loc_timestamp, as 0 for the numeric fields and the background flag.
C4_DefaultsOnRead ==
    (rd.state = "HeaderParsed" /\ nhdr = 1) =>
        /\ rd.attrs.version = 2 /\ rd.attrs.compression = 1
        /\ rd.attrs.x_resolution = COLS /\ rd.attrs.y_resolution = ROWS
        /\ \A a \in NoneDefaultAttrs \cup {"loc_timestamp"} :
              ~truthy(wm[a]) => rd.attrs[a].t = "None"
        /\ \A a \in ZeroDefaultAttrs : ~truthy(wm[a]) => is_zero(rd.attrs[a])
        /\ (wm.background_frame.t = "None" => is_zero(rd.attrs.background_frames))

\* C4 (amended): as claimed, except that loc_timestamp reads back as 0 when
\* the field is absent.
C4_DefaultsAmended ==
    (rd.state = "HeaderParsed" /\ nhdr = 1) =>
        /\ rd.attrs.version = 2 /\ rd.attrs.compression = 1
        /\ rd.attrs.x_resolution = COLS /\ rd.attrs.y_resolution = ROWS
        /\ \A a \in NoneDefaultAttrs : ~truthy(wm[a]) => rd.attrs[a].t = "None"
        /\ \A a \in ZeroDefaultAttrs \cup {"loc_timestamp"} :
              ~truthy(wm[a]) => is_zero(rd.attrs[a])
        /\ (wm.background_frame.t = "None" => is_zero(rd.attrs.background_frames))

\* C4 witness: a reader has parsed the output of a writer on which nothing
\* was set.
C4_Witness ==
    /\ rd.state = "HeaderParsed" /\ nhdr = 1
    /\ \A a \in MetaAttrs \ {"timestamp"} : wm[a].t = "None"

\* C5: a frame read from a version 1 file has no time_on and no
\* last_ffc_time, temperatures 0 and background_frame false, whatever fields
\* its section carries; a frame read from a version 2 file has both
\* durations, zero where the 't' or 'c' field is not in its section.
C5_VersionGating ==
    \A i \in ItIds : \A k \in 1..Len(its[i].out) :
        LET f == its[i].out[k]
        IN  /\ rd.attrs.version = 1 =>
                 /\ f.time_on.t = "None" /\ f.last_ffc_time.t = "None"
                 /\ is_zero(f.temp_c) /\ is_zero(f.last_ffc_temp_c)
                 /\ ~f.background_frame
            /\ rd.attrs.version = 2 =>
                 /\ f.time_on.t = "timedelta"
                 /\ f.last_ffc_time.t = "timedelta"
                 /\ (given.kind = "given" /\ its[2].status = "unused") =>
                       /\ TIME_ON \notin given.opts[k] => f.time_on.v = 0
                       /\ TIME_ON \in given.opts[k] => f.time_on.v = 60000000
                       /\ LAST_FFC_TIME \notin given.opts[k] =>
                              f.last_ffc_time.v = 0

\* C5 witness: a version 1 file whose first frame section carries time-on,
\* last-FFC time, both temperatures and the background marker has yielded a
\* frame.
C5_Witness ==
    /\ given.kind = "given"
    /\ given.version = 1
    /\ Len(given.opts) >= 1
    /\ {TIME_ON, LAST_FFC_TIME, TEMP_C, LAST_FFC_TEMP_C, BACKGROUND_FRAME}
          \subseteq given.opts[1]
    /\ Len(its[1].out) >= 1

\* C6: a reader is constructed only from a stream that starts with "CPTV",
\* a version byte of 1 or 2 and an 'H' section holding the compression,
\* timestamp, x-resolution and y-resolution fields, with compression 1;
\* construction fails on every other stream.
C6_HeaderValidated ==
    (given.kind = "given" /\ rd.state # "none") =>
        LET good == /\ Len(Stream) >= 6
                    /\ SubSeq(Stream, 1, 4) = MAGIC
                    /\ Stream[5] \in {1, 2}
                    /\ Stream[6] = HEADER
                    /\ given.cut >= given.ends[1]
                    /\ {COMPRESSION, TIMESTAMP, X_RESOLUTION, Y_RESOLUTION}
                          \subseteq given.hdr_codes
                    /\ given.compression = 1
        IN  /\ rd.state = "HeaderParsed" => good
            /\ rd.state = "HeaderParsed" =>
                  rd.attrs.compression = 1 /\ rd.attrs.version \in {1, 2}
            /\ ~good => rd.state = "Failed" /\ rd.err # ""

\* C6 witness: a reader was constructed from a stream that holds a version 1
\* header and nothing after it.
C6_Witness ==
    /\ given.kind = "given"
    /\ rd.state = "HeaderParsed"
    /\ rd.attrs.version = 1
    /\ given.cut = given.ends[1]

\* the number of frame sections that lie whole before the end of the stream
WholeFrames ==
    Cardinality({j \in 2..Len(given.ends) : given.ends[j] <= given.cut})

\* the stream ends after the type byte of a frame section and before the
\* section's end
EndsInsideFrame ==
    \E j \in 2..Len(given.ends) :
        given.ends[j - 1] < given.cut /\ given.cut < given.ends[j]

\* C7 (as claimed): when the stream ends inside a frame section, iteration
\* raises after the whole frames before it and yields nothing from the cut
\* section; it ends cleanly only when the stream ends at a section boundary.
C7_TruncationIsError ==
    (given.kind = "given" /\ AloneFinished) =>
        /\ EndsInsideFrame =>
              its[1].status = "failed" /\ Len(its[1].out) = WholeFrames
        /\ its[1].status = "done" =>
              \E j \in 1..Len(given.ends) : given.cut = given.ends[j]

\* The file is write_header on a writer with a background frame, then
\* write_frame calls that all returned, then close.
BackgroundFile ==
    /\ nhdr = 1
    /\ wm.background_frame.t = "Frame"
    /\ Len(wlog) = ncalls + 1

\* C11 (as claimed): with a background frame set before write_header, the
\* reader yields the background frame first and then every frame passed to
\* write_frame, each with the pix that was written.
C11_BackgroundFirst ==
    (AloneFinished /\ BackgroundFile) =>
        /\ its[1].status = "done"
        /\ Len(its[1].out) = Len(wlog)
        /\ its[1].out[1].pix = wm.background_frame.v.pix
        /\ \A k \in 1..Len(wlog) : its[1].out[k].pix = wlog[k].pix

\* The placement alone: the first frame section of the stream follows the
\* header section at once and decodes, from a zero reference, to the
\* background frame, and the compressor's reference after write_header is the
\* background frame in snake order.
C11_Placement ==
    /\ (nhdr = 1 /\ wm.background_frame.t = "Frame" /\ ncalls = 0 /\ Len(sink) = 1)
          => comp.has_prev
             /\ comp.prev = linear_pix_of(wm.background_frame.v.pix)
    /\ (AloneFinished /\ nhdr = 1 /\ wm.background_frame.t = "Frame")
          => Len(its[1].out) >= 1
             /\ its[1].out[1].pix = wm.background_frame.v.pix

\* ----------------------------------------------- background frame marking
\* A Frame as Frame(pix, time_on, last_ffc_time, temp_c, last_ffc_temp_c)
\* makes it (background_frame defaults to False), and the same frame marked.
plain_bg == new_frame(step_frame(300, 0, 1))
marked_bg == [plain_bg EXCEPT !.background_frame = TRUE]

\* what the caller assigns to writer.background_frame before write_header:
\* nothing, a marked Frame or an unmarked Frame
background_choice(k) ==
    CASE k = 1 -> NoneV
      [] k = 2 -> FrameV(marked_bg)
      [] OTHER -> FrameV(plain_bg)

InitBackground ==
    \E k \in 1..3 :
        InitWith([background_frame |-> background_choice(k)])

NextBackground ==
    \/ WriteHeader
    \/ WriteFrameOf({new_frame(step_frame(0, 300, 1)), marked_bg})
    \/ Close
    \/ OpenReader
    \/ \E i \in ItIds : IterNext(i)

SpecBackground == InitBackground /\ [][NextBackground]_vars

\* C12 (as claimed): the header of a file the writer produced carries the
\* background-frame flag exactly when writer.background_frame was set, and
\* exactly when the first frame the reader yields has background_frame true.
C12_BackgroundMarked ==
    (AloneFinished /\ nhdr = 1 /\ its[1].status = "done") =>
        LET flag == ~is_zero(rd.attrs.background_frames)
            first_marked == Len(its[1].out) >= 1
                            /\ its[1].out[1].background_frame
        IN  /\ flag <=> wm.background_frame.t = "Frame"
            /\ flag <=> first_marked

\* ---------------------------------------------------- unknown field codes
\* codes that are in none of UINT8_FIELDS, UINT32_FIELDS, STRING_FIELDS,
\* FLOAT_FIELDS and TIMESTAMP_FIELDS
UnknownCodes == {0, 33, 122}

\* a field of an unknown code: length byte, code, and data_len payload bytes
\* that read like a compression field of value 2, over and over
unknown_field(code, data_len) ==
    <<data_len, code>>
    \o [i \in 1..data_len |-> <<1, COMPRESSION, 2>>[((i - 1) % 3) + 1]]

\* a section of the fields fs (each its bytes) with the bytes extra, if any,
\* as one more field after the j-th (after the last, if j is larger)
section_with(section_type, fs, j, extra) ==
    <<section_type, Len(fs) + (IF extra = <<>> THEN 0 ELSE 1)>>
    \o Flatten(SubSeq(fs, 1, IF j < Len(fs) THEN j ELSE Len(fs)))
    \o extra
    \o Flatten(SubSeq(fs, (IF j < Len(fs) THEN j ELSE Len(fs)) + 1, Len(fs)))

\* the fields of a header section, and of a frame section of width w
header_given_fields == [i \in 1..Len(HeaderCodes) |-> given_field(HeaderCodes[i], 1)]
frame_given_fields(w) ==
    <<given_field(TIME_ON, 1), <<1, BIT_WIDTH, w>>,
      <<4, FRAME_SIZE>> \o LE(Len(given_payload(w)), 4)>>

\* magic, version, header section and two frame sections (widths 8 and 12);
\* section number at (1 = header) holds extra after its j-th field
stream_with(version, at, j, extra) ==
    MAGIC \o <<version>>
    \o section_with(HEADER, header_given_fields, j, IF at = 1 THEN extra ELSE <<>>)
    \o section_with(FRAME, frame_given_fields(8), j, IF at = 2 THEN extra ELSE <<>>)
    \o given_payload(8)
    \o section_with(FRAME, frame_given_fields(12), j, IF at = 3 THEN extra ELSE <<>>)
    \o given_payload(12)

\* The reader is handed a file with one field of an unknown code somewhere in
\* its header or in one of its frame sections; given remembers the same file
\* without that field.
InitUnknown ==
    \E version \in {1, 2}, at \in 1..3, j \in 0..Len(HeaderCodes),
       code \in UnknownCodes, data_len \in {0, 1, 3, 255} :
        /\ (at > 1 => j <= Len(frame_given_fields(8)))
        /\ legacy_promotion = TRUE
        /\ wm = DefaultMeta
        /\ sink = <<[mtime |-> 0,
                     data |-> stream_with(version, at, j,
                                          unknown_field(code, data_len)),
                     closed |-> TRUE, split |-> FALSE]>>
        /\ ws = 0
        /\ comp = NoComp
        /\ wres = NoCall
        /\ wlog = <<>>
        /\ ncalls = 0
        /\ nhdr = 0
        /\ rd = NoReader
        /\ its = [i \in ItIds |-> NoIter]
        /\ given = [kind |-> "unknown", at |-> at, extra |-> 2 + data_len,
                    clean |-> stream_with(version, at, j, <<>>)]

SpecUnknown == InitUnknown /\ [][NextRead]_vars

\* every frame a fresh iteration yields from offset pos of src on
RECURSIVE frames_from(_, _, _, _)
frames_from(attrs, s, pos, linear_pix) ==
    LET yielded(r) ==
            IF r.kind = "yield"
            THEN <<r.frame>> \o frames_from(attrs, s, r.pos, r.linear_pix)
            ELSE <<>>
    IN  yielded(iter_step(attrs, s, pos, linear_pix))

\* the frames of a whole stream with a good header
frames_of(s) ==
    LET from(h) ==
            frames_from(h.attrs, s, h.pos,
                        [k \in 1..(h.attrs.x_resolution * h.attrs.y_resolution)
                            |-> 0])
    IN  from(read_header(s))

\* C13: a field of an unknown code in the header or in a frame section is
\* skipped: the reader is constructed and iterates without error, its offset
\* after the section is data_len + 2 bytes further than without the field,
\* and the header attributes and every frame are those of the same stream
\* without the field.
C13_UnknownSkipped ==
    (given.kind = "unknown") =>
        /\ rd.state # "Failed"
        /\ \A i \in ItIds : its[i].status # "failed"
        /\ rd.state = "HeaderParsed" =>
              /\ rd.frame_file_offset
                    = read_header(Whole(given.clean)).pos
                      + (IF given.at = 1 THEN given.extra ELSE 0)
              /\ rd.attrs = read_header(Whole(given.clean)).attrs
        /\ AloneFinished =>
              /\ its[1].status = "done"
              /\ rd.pos = Len(Stream)
              /\ Len(Stream) = Len(given.clean) + given.extra
              /\ Len(its[1].out) = 2
              /\ its[1].out = frames_of(Whole(given.clean))

\* C13 witness: a frame section held an unknown field with 255 payload bytes,
\* and the reader has yielded both frames and reached the end.
C13_Witness ==
    /\ given.kind = "unknown"
    /\ given.at = 2
    /\ given.extra = 257
    /\ AloneFinished
    /\ Len(its[1].out) = 2

\* ------------------------------------------------------------ bit packing
\* the longest sequence of values packed
MaxVals == 3

\* values of a signed packed_bit_width-bit field: both ends of the range, the
\* values around zero and an alternating bit pattern
PackValues(packed_bit_width) ==
    {v \in {-Pow2(packed_bit_width - 1), -1, 0, 1,
            Pow2(packed_bit_width - 1) \div 3,
            Pow2(packed_bit_width - 1) - 1} :
        /\ v >= -Pow2(packed_bit_width - 1)
        /\ v <= Pow2(packed_bit_width - 1) - 1}

\* the int16 arrays handed to pack_bits at that width
PackInputs(packed_bit_width) ==
    UNION {[1..n -> PackValues(packed_bit_width)] : n \in 1..MaxVals}

\* nothing packed or unpacked yet
NotPacked == [ok |-> FALSE, err |-> "not called", data |-> <<>>]

\* A width and an int16 array of values that fit it are chosen; no file is
\* involved.
InitPack ==
    \E packed_bit_width \in 1..16, legacy \in BOOLEAN :
      \E vs \in PackInputs(packed_bit_width) :
        /\ legacy_promotion = legacy
        /\ wm = DefaultMeta
        /\ sink = <<>>
        /\ ws = 0
        /\ comp = NoComp
        /\ wres = NoCall
        /\ wlog = <<>>
        /\ ncalls = 0
        /\ nhdr = 0
        /\ rd = NoReader
        /\ its = [i \in ItIds |-> NoIter]
        /\ given = [kind |-> "pack", w |-> packed_bit_width, vs |-> vs,
                    stage |-> "drawn", packed |-> NotPacked,
                    unpacked |-> <<>>]

\* Compressor.pack_bits(w, vs).astype("B")
PackBits ==
    /\ given.kind = "pack"
    /\ given.stage = "drawn"
    /\ LET done(packed) ==
               given' = [given EXCEPT
                           !.stage = IF packed.ok THEN "packed" ELSE "raised",
                           !.packed = packed]
       IN  done(pack_bits(given.w, given.vs, legacy_promotion))
    /\ UNCHANGED <<legacy_promotion, wm, sink, ws, comp, wres, wlog, ncalls,
                   nhdr, rd, its>>

\* the deltas _decompress_frame reads at width w from a frame payload made of
\* a start value of 0 and the packed bytes, for a frame of Len(vs) + 1 values
UnpackBits ==
    /\ given.kind = "pack"
    /\ given.stage = "packed"
    /\ LET source == <<0, 0, 0, 0>> \o given.packed.data
       IN  given' = [given EXCEPT
                       !.stage = "unpacked",
                       !.unpacked =
                           unpack_deltas(source, source \o <<0, 0>>,
                                         Len(given.packed.data), given.w,
                                         Len(given.vs) + 1)]
    /\ UNCHANGED <<legacy_promotion, wm, sink, ws, comp, wres, wlog, ncalls,
                   nhdr, rd, its>>

NextPack == PackBits \/ UnpackBits

SpecPack == InitPack /\ [][NextPack]_vars

\* C14: for every width 1..16 and every int16 array vs of values that fit the
\* width, pack_bits does not raise, and unpacking its bytes at that width
\* gives vs back.
C14_PackRoundTrip ==
    (given.kind = "pack") =>
        /\ given.stage # "raised"
        /\ given.stage = "unpacked" => given.unpacked = given.vs

\* what does hold: packed bytes have the length the reader expects, and the
\* round trip holds at widths 8 and 12 and, under legacy promotion, at every
\* width
C14_RoundTripWhere ==
    (given.kind = "pack") =>
        /\ given.stage \in {"packed", "unpacked"} =>
              Len(given.packed.data) = (Len(given.vs) * given.w + 7) \div 8
        /\ (legacy_promotion \/ given.w \in {8, 12}) =>
              /\ given.stage # "raised"
              /\ given.stage = "unpacked" => given.unpacked = given.vs

\* ------------------------------------------------------ header field order
\* the attributes of the fields up to longitude, and the others
FirstAttrs ==
    {"device_name", "device_id", "timestamp", "preview_secs", "motion_config",
     "latitude", "longitude"}
LastAttrs == MetaAttrs \ FirstAttrs

\* every combination of the first attributes with none or all of the last,
\* and every combination of the last with none or all of the first
OrderSelections ==
    {a \cup b : a \in SUBSET FirstAttrs, b \in {{}, LastAttrs}}
    \cup {a \cup b : a \in {{}, FirstAttrs}, b \in SUBSET LastAttrs}

\* The writer's attributes are set in those combinations (values of
\* test_round_trip_header), or few of them to edge or falsy values, with or
\* without a background frame.
InitOrder ==
    \E p \in {"test", "edge", "falsy"}, k \in {1, 3} :
      \E sel \in (IF p = "test" THEN OrderSelections ELSE MetaSelections) :
        InitWith([a \in sel \cup {"background_frame"} |->
                    IF a \in sel THEN meta_value(p, a)
                    ELSE background_choice(k)])

NextOrder == WriteHeader \/ Close

SpecOrder == InitOrder /\ [][NextOrder]_vars

\* the field codes of a section of count fields whose first field starts at
\* offset pos of src, read off the bytes: length byte, code, payload
RECURSIVE raw_codes(_, _, _)
raw_codes(src, pos, count) ==
    IF count = 0 THEN <<>>
    ELSE <<src[pos + 2]>> \o raw_codes(src, pos + 2 + src[pos + 1], count - 1)

\* the offset just past those fields
RECURSIVE raw_end(_, _, _)
raw_end(src, pos, count) ==
    IF count = 0 THEN pos
    ELSE raw_end(src, pos + 2 + src[pos + 1], count - 1)

\* the header fields in the order the specification lists them
HeaderOrder ==
    <<COMPRESSION, X_RESOLUTION, Y_RESOLUTION, DEVICENAME, DEVICEID,
      TIMESTAMP, PREVIEW_SECS, MOTION_CONFIG, LATITUDE, LONGITUDE, ALTITUDE,
      ACCURACY, LOC_TIMESTAMP, FPS, MODEL, BRAND, FIRMWARE, CAMERA_SERIAL,
      BACKGROUND_FRAME>>

\* whether the k-th of them is to be present for the writer attributes w
order_present(w, k) ==
    CASE k \in {1, 2, 3, 6} -> TRUE
      [] k = 4 -> truthy(w.device_name)
      [] k = 5 -> truthy(w.device_id)
      [] k = 7 -> truthy(w.preview_secs)
      [] k = 8 -> truthy(w.motion_config)
      [] k = 9 -> truthy(w.latitude)
      [] k = 10 -> truthy(w.longitude)
      [] k = 11 -> truthy(w.altitude)
      [] k = 12 -> truthy(w.accuracy)
      [] k = 13 -> truthy(w.loc_timestamp)
      [] k = 14 -> truthy(w.fps)
      [] k = 15 -> truthy(w.model)
      [] k = 16 -> truthy(w.brand)
      [] k = 17 -> truthy(w.firmware)
      [] k = 18 -> truthy(w.camera_serial)
      [] OTHER -> w.background_frame.t # "None"

RECURSIVE order_from(_, _)
order_from(w, k) ==
    IF k > Len(HeaderOrder) THEN <<>>
    ELSE (IF order_present(w, k) THEN <<HeaderOrder[k]>> ELSE <<>>)
         \o order_from(w, k + 1)

\* C15: the header section written by write_header holds, in the order
\* compression, x-res, y-res, device-name, device-id, timestamp, preview-secs,
\* motion-config, latitude, longitude, altitude, accuracy, loc-timestamp, fps,
\* model, brand, firmware, camera-serial, background flag, exactly the
\* mandatory fields and the optional ones whose value is truthy (the flag:
\* whose background frame is set); its field_count byte is the number of
\* fields, and the section ends where the fields end.
C15_HeaderFieldOrder ==
    (nhdr = 1 /\ ws = 1) =>
        /\ SubSeq(Written, 1, 5) = MAGIC \o <<VERSION>>
        /\ Written[6] = HEADER
        /\ raw_codes(Written, 7, Written[7]) = order_from(wm, 1)
        /\ Written[7] = Len(order_from(wm, 1))
        /\ IF wm.background_frame.t = "None"
           THEN raw_end(Written, 7, Written[7]) = Len(Written)
           ELSE Written[raw_end(Written, 7, Written[7]) + 1] = FRAME

\* C15 witness: a header was written with some optional fields set and others
\* not, and with the background flag
C15_Witness ==
    /\ nhdr = 1
    /\ ws = 1
    /\ truthy(wm.device_id) /\ ~truthy(wm.device_name)
    /\ truthy(wm.fps) /\ ~truthy(wm.latitude)
    /\ wm.background_frame.t # "None"
    /\ 2 < Written[7] /\ Written[7] < 19

\* ------------------------------------------------------------ frame framing
\* From offset pos on, src is frame sections only, each with a frame size of
\* 4 + ceil((COLS * ROWS - 1) * w / 8) for its bit width w and followed by
\* that many bytes, up to the end of src.
RECURSIVE framed_from(_, _)
framed_from(src, pos) ==
    LET payload(sec) ==
            /\ sec.ok
            /\ sec.section_type = FRAME
            /\ FRAME_SIZE \in DOMAIN sec.fields
            /\ BIT_WIDTH \in DOMAIN sec.fields
            /\ sec.fields[FRAME_SIZE].v
                  = 4 + ((NPix - 1) * sec.fields[BIT_WIDTH].v + 7) \div 8
            /\ sec.pos + sec.fields[FRAME_SIZE].v <= Len(src)
            /\ framed_from(src, sec.pos + sec.fields[FRAME_SIZE].v)
    IN  IF pos = Len(src) THEN TRUE
        ELSE payload(read_section(Whole(src), pos))

\* the same for a whole stream, from the end of its header section
framed(src) ==
    LET after(h) == h.ok /\ framed_from(src, h.pos)
    IN  after(read_header(Whole(src)))

\* C16: in every stream the writer has produced, each frame section's frame
\* size is the number of bytes between its fields and the next section (4
\* seed bytes and the packed bytes of its width), and a reader of the stream
\* one write_header, its write_frame calls and close produced, which has
\* consumed the header or a frame's bytes, stands at a frame section's type
\* byte or at the end of the stream.
C16_FrameFraming ==
    /\ \A i \in 1..Len(sink) : framed(sink[i].data)
    /\ (rd.state = "HeaderParsed" /\ rd.file = Whole(sink[1].data)) =>
          \/ rd.pos = Len(Stream)
          \/ Stream[rd.pos + 1] = FRAME

\* C16 witness: the writer wrote two frames of different widths after the
\* header, and the reader has consumed the first and stands before the second.
C16_Witness ==
    /\ nhdr = 1
    /\ Len(wlog) = 2
    /\ rd.state = "HeaderParsed"
    /\ Len(frame_widths(Stream, rd.frame_file_offset)) = 2
    /\ frame_widths(Stream, rd.frame_file_offset)[1]
          # frame_widths(Stream, rd.frame_file_offset)[2]
    /\ Len(its[1].out) = 1
    /\ rd.pos < Len(Stream)

\* ------------------------------------------------- BitStream (bitstream.py)
\* the longest byte string handed to iter_int
MaxBytes == 3

\* the bit of weight 2^k of the non-negative integer v
bit_of(v, k) == (v \div Pow2(k)) % 2

\* iter_int keeps its scratch, bits, below 2^32: here it is the sequence of
\* its 32 bits, highest first
ZeroBits == [k \in 1..32 |-> 0]

\* bits | (byte << (24 - nbits)): the byte's highest bit lands on bit
\* 31 - nbits
or_byte(bits, byte, nbits) ==
    [k \in 1..32 |->
        IF k > nbits /\ k <= nbits + 8 /\ bit_of(byte, 7 - (k - nbits - 1)) = 1
        THEN 1 ELSE bits[k]]

\* the value of the bits b[1..n], highest first
RECURSIVE bits_value(_, _)
bits_value(b, n) ==
    IF n = 0 THEN 0 ELSE 2 * bits_value(b, n - 1) + b[n]

\* bits >> (32 - bitw) & 0xffff
top_bits(bits, bitw) == bits_value(bits, bitw) % 65536

\* (bits << bitw) & 0xffffffff
shift_out(bits, bitw) ==
    [k \in 1..32 |-> IF k + bitw <= 32 THEN bits[k + bitw] ELSE 0]

\* twos_comp as it would be if it returned v
twos_comp_unsigned(v, width) == v

\* twos_comp(v, width): mask = 2**(width - 1); -(v & mask) + (v & ~mask)
twos_comp(v, width) ==
    LET mask == Pow2(width - 1)
        v_and_mask == IF bit_of(v, width - 1) = 1 THEN mask ELSE 0
    IN  -v_and_mask + (v - v_and_mask)

\* iter_int, "while nbits < bitw": the scratch once it holds bitw bits, or the
\* IndexError of source[i] past the end
RECURSIVE fill_bits(_, _, _, _, _)
fill_bits(source, i, bits, nbits, bitw) ==
    IF nbits >= bitw THEN [ok |-> TRUE, i |-> i, bits |-> bits, nbits |-> nbits]
    ELSE IF i >= Len(source)
    THEN [ok |-> FALSE, i |-> i, bits |-> bits, nbits |-> nbits]
    ELSE fill_bits(source, i + 1, or_byte(bits, source[i + 1], nbits),
                   nbits + 8, bitw)

\* bytes for iter_int: those of test_iter_int, and all zeros, all ones and
\* an alternating pattern
BitBytes == {0, 19, 165, 240, 255}

BitSources == UNION {[1..n -> BitBytes] : n \in 1..MaxBytes}

\* BitStream(io.BytesIO(source)).iter_int(len(source), bitw) is created; the
\* generator has not run yet.
InitBits ==
    \E bitw \in 1..16, source \in BitSources :
        /\ legacy_promotion = TRUE
        /\ wm = DefaultMeta
        /\ sink = <<>>
        /\ ws = 0
        /\ comp = NoComp
        /\ wres = NoCall
        /\ wlog = <<>>
        /\ ncalls = 0
        /\ nhdr = 0
        /\ rd = NoReader
        /\ its = [i \in ItIds |-> NoIter]
        /\ given = [kind |-> "bits", bitw |-> bitw, source |-> source,
                    i |-> 0, bits |-> ZeroBits, nbits |-> 0, out |-> <<>>,
                    status |-> "running", tabled |-> FALSE, table |-> <<>>]

\* next() on the generator of iter_int: one turn of "while True"
IterInt ==
    /\ given.kind = "bits"
    /\ given.status = "running"
    /\ LET turn(f) ==
               given' =
                 IF ~f.ok
                 THEN [given EXCEPT !.status = "IndexError", !.i = f.i,
                                    !.bits = f.bits, !.nbits = f.nbits]
                 ELSE [given EXCEPT
                         !.i = f.i,
                         !.out = Append(@, twos_comp(top_bits(f.bits,
                                                              given.bitw),
                                                     given.bitw)),
                         !.bits = shift_out(f.bits, given.bitw),
                         !.nbits = f.nbits - given.bitw]
       IN  turn(fill_bits(given.source, given.i, given.bits, given.nbits,
                          given.bitw))
    /\ UNCHANGED <<legacy_promotion, wm, sink, ws, comp, wres, wlog, ncalls,
                   nhdr, rd, its>>

\* _decompress_frame's s[1:] on the same bytes after a start value of 0, for
\* a frame of as many values as the bytes hold whole
TableUnpack ==
    /\ given.kind = "bits"
    /\ given.status = "IndexError"
    /\ ~given.tabled
    /\ LET source == <<0, 0, 0, 0>> \o given.source
       IN  given' = [given EXCEPT
                       !.tabled = TRUE,
                       !.table =
                           unpack_deltas(source, source \o <<0, 0>>,
                                         Len(given.source), given.bitw,
                                         (8 * Len(given.source)) \div given.bitw
                                         + 1)]
    /\ UNCHANGED <<legacy_promotion, wm, sink, ws, comp, wres, wlog, ncalls,
                   nhdr, rd, its>>

NextBits == IterInt \/ TableUnpack

SpecBits == InitBits /\ [][NextBits]_vars

\* bit k (0-based) of the bytes taken highest bit first
stream_bit(source, k) == bit_of(source[k \div 8 + 1], 7 - (k % 8))

\* the unsigned value of the n bits from bit k on
RECURSIVE stream_bits(_, _, _)
stream_bits(source, k, n) ==
    IF n = 0 THEN 0
    ELSE 2 * stream_bits(source, k, n - 1) + stream_bit(source, k + n - 1)

\* the two's-complement reading of bits [i * w, (i + 1) * w)
stream_field(source, i, w) ==
    stream_bits(source, i * w, w)
    - (IF stream_bit(source, i * w) = 1 THEN Pow2(w) ELSE 0)

\* C17: the i-th value of iter_int(total_size, w) and the i-th value of the
\* reader's unpack at width w (the table-driven one for w # 8) are both the
\* two's-complement reading of bits [i*w, (i+1)*w) of the bytes, highest bit
\* first; iter_int gives as many values as the bytes hold whole.
C17_BitReadersAgree ==
    (given.kind = "bits") =>
        /\ \A k \in 1..Len(given.out) :
              given.out[k] = stream_field(given.source, k - 1, given.bitw)
        /\ given.status = "IndexError" =>
              Len(given.out) = (8 * Len(given.source)) \div given.bitw
        /\ given.tabled =>
              /\ Len(given.table) = Len(given.out)
              /\ \A k \in 1..Len(given.table) :
                    /\ given.table[k] = given.out[k]
                    /\ given.table[k]
                          = stream_field(given.source, k - 1, given.bitw)

\* C17 witness: the bytes F0 13 at width 4 have been read by both
C17_Witness ==
    /\ given.kind = "bits"
    /\ given.source = <<240, 19>>
    /\ given.bitw = 4
    /\ given.tabled
    /\ given.out = <<-1, 0, 1, 3>>
    /\ given.table = <<-1, 0, 1, 3>>

\* ------------------------------------------------------------- snake order
\* the largest width and height of the index map
MaxDim == 6

\* a row-major frame of width * height values: a ramp, or a repeating pattern
snake_input(width, height, ramp) ==
    [i \in 1..(width * height) |-> IF ramp THEN i - 1 ELSE (i * i) % 7]

\* A width, a height and a row-major frame are chosen.
InitSnake ==
    \E width \in 1..MaxDim, height \in 1..MaxDim, ramp \in BOOLEAN :
        /\ legacy_promotion = TRUE
        /\ wm = DefaultMeta
        /\ sink = <<>>
        /\ ws = 0
        /\ comp = NoComp
        /\ wres = NoCall
        /\ wlog = <<>>
        /\ ncalls = 0
        /\ nhdr = 0
        /\ rd = NoReader
        /\ its = [i \in ItIds |-> NoIter]
        /\ given = [kind |-> "snake", width |-> width, height |-> height,
                    pix |-> snake_input(width, height, ramp),
                    stage |-> "drawn", linear |-> <<>>, restored |-> <<>>]

\* the encoder's gather: pix.ravel()[twisted]
Twist ==
    /\ given.kind = "snake"
    /\ given.stage = "drawn"
    /\ LET gather(tw) ==
               given' = [given EXCEPT
                           !.stage = "twisted",
                           !.linear = [i \in 1..Len(tw) |->
                                          given.pix[tw[i] + 1]]]
       IN  gather(get_twisted(given.width, given.height))
    /\ UNCHANGED <<legacy_promotion, wm, sink, ws, comp, wres, wlog, ncalls,
                   nhdr, rd, its>>

\* the decoder's gather: current_frame[self._get_snake()]
Untwist ==
    /\ given.kind = "snake"
    /\ given.stage = "twisted"
    /\ LET gather(sn) ==
               given' = [given EXCEPT
                           !.stage = "restored",
                           !.restored = [i \in 1..Len(sn) |->
                                            given.linear[sn[i] + 1]]]
       IN  gather(get_snake(given.width, given.height))
    /\ UNCHANGED <<legacy_promotion, wm, sink, ws, comp, wres, wlog, ncalls,
                   nhdr, rd, its>>

NextSnake == Twist \/ Untwist

SpecSnake == InitSnake /\ [][NextSnake]_vars

\* the map of width w is a permutation of 0..n-1, its own inverse, the
\* identity on even rows and the reversal of odd rows
snake_laws(tw, w, n) ==
    /\ {tw[i] : i \in 1..n} = 0..(n - 1)
    /\ \A i \in 1..n : tw[tw[i] + 1] = i - 1
    /\ \A i \in 0..(n - 1) :
          tw[i + 1] = IF (i \div w) % 2 = 0 THEN i
                      ELSE (i \div w) * w + (w - 1 - (i % w))

\* C18: for every width and height the snake index map is a permutation that
\* is its own inverse, the identity on even rows and the reversal of odd
\* rows; the encoder's and the decoder's maps are equal, and gathering
\* through one and then the other restores the row-major frame.
C18_SnakeInvolution ==
    (given.kind = "snake") =>
        /\ get_twisted(given.width, given.height)
              = get_snake(given.width, given.height)
        /\ snake_laws(get_twisted(given.width, given.height), given.width,
                      given.width * given.height)
        /\ given.stage = "restored" => given.restored = given.pix

\* C18 witness: a frame with odd rows of more than two values has been
\* gathered by the encoder, which moved values, and then by the decoder
C18_Witness ==
    /\ given.kind = "snake"
    /\ given.width >= 3
    /\ given.height >= 3
    /\ given.stage = "restored"
    /\ given.linear # given.pix

\* ---------------------------------------------------- iteration terminates
\* Files of two frame sections, the first of width 8, 12 or 16, that end at
\* any offset.
InitPulled ==
    \E version \in {1, 2}, w \in {8, 12, 16} :
        LET parts == <<GoodHeader(version), given_frame(w, {TIME_ON}),
                       given_frame(8, {TIME_ON})>>
        IN  \E cut \in 0..Len(Flatten(parts)) :
                InitGiven(version, {COMPRESSION, X_RESOLUTION, Y_RESOLUTION,
                                    TIMESTAMP}, 1,
                          parts, <<{TIME_ON}, {TIME_ON}>>, cut)

\* A consumer that holds a generator keeps calling next() on it
\* (for frame in reader), so a next() that can be taken is taken.
SpecReadFair ==
    /\ InitPulled
    /\ [][NextRead]_vars
    /\ \A i \in ItIds : WF_vars(IterNext(i))

\* the frame sections of the given stream whose type byte is in the stream
StartedFrames ==
    Cardinality({j \in 2..Len(given.ends) : given.ends[j - 1] < given.cut})

\* no generator has yielded more frames than the stream has frame sections
FramesBounded ==
    \A i \in ItIds : Len(its[i].out) <= StartedFrames

\* a next() either leaves the stream further on than it found it, or ends
\* the generator
StepConsumes ==
    \A i \in ItIds :
        its'[i] # its[i] =>
            \/ its'[i].status \in {"done", "failed"}
            \/ rd'.pos > (IF its[i].status = "unused"
                          THEN rd.frame_file_offset ELSE rd.pos)

\* C19: behind a constructed reader every generator that is pulled ends,
\* cleanly or with an error; each next() consumes at least one byte or ends
\* the iteration; and no more frames are yielded than the stream has frame
\* sections.
C19_IterationTerminates ==
    /\ []FramesBounded
    /\ [][StepConsumes]_vars
    /\ \A i \in ItIds :
          (rd.state = "HeaderParsed") ~> (its[i].status \in {"done", "failed"})

\* what does hold: every generator that is pulled ends, every next() consumes
\* a byte or ends its generator, and a generator that runs alone yields no
\* more frames than the stream has frame sections
C19_AloneTerminates ==
    /\ [](its[2].status = "unused" => FramesBounded)
    /\ [][StepConsumes]_vars
    /\ \A i \in ItIds :
          (rd.state = "HeaderParsed") ~> (its[i].status \in {"done", "failed"})

\* ------------------------------------------------------ failed write_frame
\* a write_frame call that raised on a writer with a compressor wrote nothing
\* and left the compressor's reference as it was
FailedWriteKeeps ==
    (/\ ncalls' = ncalls + 1
     /\ comp.exists
     /\ ~wres'.ok) =>
        /\ sink' = sink
        /\ comp' = comp

\* the file is one write_header, write_frame calls of which some raised, and
\* close, on a writer without a background frame
FileWithFailedWrites ==
    /\ nhdr = 1
    /\ wm.background_frame.t = "None"
    /\ Len(wlog) < ncalls

\* C20: a write_frame call that fails after write_header writes no frame
\* section and leaves the encoder's reference unchanged, so the frames of the
\* calls that succeeded are read back with their pix.
C20_FailedWriteInSync ==
    /\ [][FailedWriteKeeps]_vars
    /\ []((AloneFinished /\ FileWithFailedWrites /\ its[1].status = "done") =>
            /\ Len(its[1].out) = Len(wlog)
            /\ \A k \in 1..Len(wlog) : its[1].out[k].pix = wlog[k].pix)

\* what does hold: a failed write_frame writes nothing to the stream
C20_FailedWriteWritesNothing ==
    [][(ncalls' = ncalls + 1 /\ ~wres'.ok) => sink' = sink]_vars

\* ------------------------------------------------------------ field framing
\* one code of each kind the reader knows (uint8, uint32, float, timestamp,
\* string) and one it does not
FieldCodes == {COMPRESSION, X_RESOLUTION, LATITUDE, TIMESTAMP, DEVICENAME, 33}

\* the payload size _read_field reads for a code, whatever data_len says;
\* -1 where it reads data_len bytes
nominal_size(code) ==
    CASE code \in UINT8_FIELDS -> 1
      [] code \in UINT32_FIELDS -> 4
      [] code \in FLOAT_FIELDS -> 4
      [] code \in TIMESTAMP_FIELDS -> 8
      [] OTHER -> -1

\* the field that follows the one under test: fps = 30
next_field == <<1, FPS, 30>>

\* A field record of any data_len is followed by a second field; nothing has
\* been read yet.
InitField ==
    \E code \in FieldCodes, data_len \in {0, 1, 2, 4, 8, 9}, fill \in {0, 1} :
        /\ legacy_promotion = TRUE
        /\ wm = DefaultMeta
        /\ sink = <<>>
        /\ ws = 0
        /\ comp = NoComp
        /\ wres = NoCall
        /\ wlog = <<>>
        /\ ncalls = 0
        /\ nhdr = 0
        /\ rd = NoReader
        /\ its = [i \in ItIds |-> NoIter]
        /\ given = [kind |-> "field", code |-> code, data_len |-> data_len,
                    src |-> <<data_len, code>>
                            \o [i \in 1..data_len |-> fill * i]
                            \o next_field,
                    pos |-> 0, nread |-> 0, ok |-> TRUE, last |-> EmptyCode,
                    val |-> NoneV]

\* one call of CPTVReader._read_field on the stream
ReadField ==
    /\ given.kind = "field"
    /\ given.ok
    /\ given.nread < 2
    /\ \E f \in {read_field(Whole(given.src), given.pos)} :
          given' = [given EXCEPT !.pos = f.pos, !.nread = @ + 1,
                                 !.ok = f.ok, !.last = f.ftype,
                                 !.val = f.val]
    /\ UNCHANGED <<legacy_promotion, wm, sink, ws, comp, wres, wlog, ncalls,
                   nhdr, rd, its>>

SpecField == InitField /\ [][ReadField]_vars

\* C21: reading a field record, of a known or an unknown code, advances the
\* stream by exactly 2 + data_len bytes whatever the code's nominal size, and
\* the field after it is then read as it is.
C21_FieldFraming ==
    (given.kind = "field") =>
        /\ given.nread >= 1 => given.ok
        /\ given.nread = 1 => given.pos = 2 + given.data_len
        /\ given.nread = 2 =>
              /\ given.pos = Len(given.src)
              /\ given.last = FPS
              /\ given.val.t = "int" /\ given.val.v = 30

\* what does hold: a read that does not run off the end of the stream
\* advances it by 2 bytes and the nominal size of a
\* uint8, uint32, float or timestamp code, and by 2 + data_len for a string
\* or an unknown code; the next field is read as it is when the two agree
C21_FramingWhere ==
    (given.kind = "field") =>
        /\ (given.nread = 1 /\ given.ok) =>
              given.pos = 2 + (IF nominal_size(given.code) < 0
                               THEN given.data_len
                               ELSE nominal_size(given.code))
        /\ (given.nread = 2 /\ nominal_size(given.code)
                                  \in {-1, given.data_len}) =>
              /\ given.ok
              /\ given.pos = Len(given.src)
              /\ given.last = FPS
              /\ given.val.t = "int" /\ given.val.v = 30

\* ------------------------------------------------- interleaved iterations
\* the frames the i-th iteration has yielded are, in order, the file's first
\* frames, each decoded against the frame before it
yields_in_order(i) == IsPrefix(its[i].out, frames_of(rd.file))

\* C22: however the next-frame steps of two iterations over one reader are
\* interleaved, the k-th frame each of them yields is the k-th frame of the
\* file decoded against its true predecessor.
C22_InterleavedInOrder ==
    (rd.state = "HeaderParsed") => \A i \in ItIds : yields_in_order(i)

\* what does hold: an iteration that runs alone, or that starts after the
\* other one has ended, yields the file's frames in order
C22_SequentialInOrder ==
    (rd.state = "HeaderParsed") =>
        /\ (its[2].status = "unused" \/ its[2].after_end) => yields_in_order(1)
        /\ its[2].after_end => yields_in_order(2)

====
